---- MODULE Spec2Model ----
(***************************************************************************)
(* A model of the retell-caller polling worker: a fleet of pods that each  *)
(* discover their shard from the list of running pods, claim one survey    *)
(* row per cycle with SELECT ... FOR UPDATE SKIP LOCKED, create a Retell   *)
(* phone call for it under withRetry, and keep the in-memory maps          *)
(* activeCalls / activeSurveys that a periodic sweep cleans.               *)
(*                                                                         *)
(* Pods are numbered 1..NumPods; the order of the numbers is the order of  *)
(* the pod names under Array.prototype.sort().  Time is counted in ticks   *)
(* of an integer clock that starts at 1 (Date.now() is never 0).           *)
(***************************************************************************)
EXTENDS Integers, FiniteSets, Sequences, Bags, TLC

\* ------------------------------------------------------------------ bounds
NumPods == 2
MaxId == 1
MaxCycles == 2
MaxTime == 3
MaxCalls == 2
\* the sweep's maxAgeMs and the shard cache TTL, in clock ticks
MaxAge == 1
ShardCacheTtl == 1
\* withRetry(operation, 3, 2000) in processSingleSurvey
MaxRetries == 3

Pods == 1..NumPods
Ids == 1..MaxId
CallIds == 1..MaxCalls
Times == 1..MaxTime

\* getNextSurveyResponse's null, and the null of the ShardingManager's cache
NoRow == 0
NoShard == [shardIndex |-> 0, totalShards |-> 0]
NoTime == 0

VARIABLES
    running,          \* pods whose process has started
    entry,            \* per pod: the entry point its process runs
    shardInfo,        \* per pod: ShardingManager.shardInfo (NoShard = null)
    lastShardUpdate,  \* per pod: ShardingManager.lastShardUpdate (NoTime = null)
    rows,             \* survey_responses joined with customers, by id
    activeSurveys,    \* per pod: RetellClient.activeSurveys
    activeCalls,      \* per pod: RetellClient.activeCalls
    cycles,           \* the processSurveyResponses invocations in flight (a bag)
    now,              \* the clock
    nextCallId,       \* the next call_id the Retell API hands out
    http,             \* the last request the HTTP server answered
    fnIn,             \* input of the function under check
    fnOut,            \* its result, or the state of its run
    isShuttingDown,   \* per pod: RetellCaller.isShuttingDown
    podsRunning,      \* the pods Kubernetes lists in phase Running
    monitor           \* the state startShardMonitoring keeps in its closure

vars == <<running, entry, shardInfo, lastShardUpdate, rows, activeSurveys,
          activeCalls, cycles, now, nextCallId, http, fnIn, fnOut,
          isShuttingDown, podsRunning, monitor>>

\* ------------------------------------------------------------ pure helpers

\* The mutant forgets the conversion to a 0-based index.
ShouldProcessIdNoZeroBase(id, shardIndex, totalShards) ==
    (id % totalShards) = shardIndex

\* ShardingManager.shouldProcessId; the ids are non-negative, where JavaScript's
\* remainder and the mathematical modulus agree.
ShouldProcessId(id, shardIndex, totalShards) ==
    LET zeroBasedIndex == shardIndex - 1
    IN  (id % totalShards) = zeroBasedIndex

\* The mutant counts the names sorted before the pod's, present or not.
IndexOfPodUnchecked(p, pods) ==
    Cardinality({q \in pods : q < p}) + 1

\* pods.indexOf(podName) + 1 over the sorted names: 0 when the pod is absent.
IndexOfPod(p, pods) ==
    IF p \in pods THEN Cardinality({q \in pods : q < p}) + 1 ELSE 0

\* The CASE of the ORDER BY clause: ILIKE '%word%' is membership of the word
\* in the row's operational_frustration text (a set of words).
UrgencyTier(r) ==
    IF "extremely" \in r.frustration THEN 1
    ELSE IF "very" \in r.frustration THEN 2
    ELSE IF "frustrated" \in r.frustration THEN 3
    ELSE 4

\* The mutant drops the data_sent_to_retell condition of the WHERE clause.
RowEligibleNoSentFilter(r) ==
    /\ r.phone # "null"
    /\ r.phone # ""
    /\ r.processed # "t"
    /\ r.validated = "t"

\* The WHERE clause's conditions on the row itself.  IS NOT TRUE admits
\* false and NULL; IS TRUE and the phone comparisons reject NULL.
RowEligible(r) ==
    /\ r.phone # "null"
    /\ r.phone # ""
    /\ r.processed # "t"
    /\ r.sent # "t"
    /\ r.validated = "t"

\* The mutant reads without FOR UPDATE SKIP LOCKED: locked rows are seen.
CandidatesIgnoringLocks(tbl, locked, shardIndex, totalShards, excl) ==
    {id \in DOMAIN tbl :
        /\ RowEligible(tbl[id])
        /\ (id % totalShards) = (shardIndex - 1)
        /\ id \notin excl}

\* The mutant compares the remainder with $1 instead of $1 - 1.
CandidatesOneBased(tbl, locked, shardIndex, totalShards, excl) ==
    {id \in DOMAIN tbl :
        /\ RowEligible(tbl[id])
        /\ (id % totalShards) = shardIndex
        /\ id \notin excl
        /\ id \notin locked}

\* The rows the SELECT can see: the WHERE clause, minus the rows locked by
\* an open transaction (SKIP LOCKED).
Candidates(tbl, locked, shardIndex, totalShards, excl) ==
    {id \in DOMAIN tbl :
        /\ RowEligible(tbl[id])
        /\ (id % totalShards) = (shardIndex - 1)
        /\ id \notin excl
        /\ id \notin locked}

\* The mutant orders by created_at ascending within a tier.
SelectNextOldestFirst(tbl, locked, shardIndex, totalShards, excl) ==
    LET cand == Candidates(tbl, locked, shardIndex, totalShards, excl)
    IN  {id \in cand :
            \A o \in cand :
                \/ UrgencyTier(tbl[id]) < UrgencyTier(tbl[o])
                \/ /\ UrgencyTier(tbl[id]) = UrgencyTier(tbl[o])
                   /\ tbl[id].created <= tbl[o].created}

\* ORDER BY tier, created_at DESC LIMIT 1: the rows that may come first.
\* Rows that tie in both keys come in an order SQL leaves open.
SelectNext(tbl, locked, shardIndex, totalShards, excl) ==
    LET cand == Candidates(tbl, locked, shardIndex, totalShards, excl)
    IN  {id \in cand :
            \A o \in cand :
                \/ UrgencyTier(tbl[id]) < UrgencyTier(tbl[o])
                \/ /\ UrgencyTier(tbl[id]) = UrgencyTier(tbl[o])
                   /\ tbl[id].created >= tbl[o].created}

\* [...activeSurveys.keys()].filter((x) => Number.isInteger(x))
ActiveSurveyIds(m) == {k \in DOMAIN m : k \in Int}

\* The mutant compares with >= instead of >.
StaleKeysInclusive(m, t, maxAgeMs) ==
    {k \in DOMAIN m : t - m[k].createdAt >= maxAgeMs}

\* The keys cleanupOldCalls collects from one map: now - createdAt > maxAgeMs.
StaleKeys(m, t, maxAgeMs) ==
    {k \in DOMAIN m : t - m[k].createdAt > maxAgeMs}

\* Map.delete of every collected key.
Remove(m, ks) == [k \in DOMAIN m \ ks |-> m[k]]

\* Map.set
MapSet(m, k, v) == [x \in DOMAIN m \cup {k} |-> IF x = k THEN v ELSE m[x]]

EmptyMap == [k \in {} |-> 0]

\* ------------------------------------------------------------------- state

Row(processed, sent, phone, validated, frustration, created) ==
    [processed |-> processed, sent |-> sent, phone |-> phone,
     validated |-> validated, frustration |-> frustration, created |-> created]

\* The backlog the fleet starts on: every row callable and not yet handled;
\* the odd ids are the more urgent ones.
InitialRows ==
    [id \in Ids |->
        Row("f", "f", "+1", "t",
            IF id % 2 = 1 THEN {"very", "frustrated"} ELSE {}, id)]

\* One processSurveyResponses invocation: where it is suspended (pc) and the
\* locals that are live there.
Cycle(pod, pc) ==
    [pod |-> pod, pc |-> pc, shardIndex |-> 0, totalShards |-> 0,
     arg3 |-> "none", row |-> NoRow, attempt |-> 0, t0 |-> NoTime]

NoHttp == [pod |-> 0, surveyId |-> NoRow, status |-> 0]

\* startShardMonitoring has not been called: no timer, lastTotalShards null,
\* no check in flight, nothing observed, the callback never invoked.
NoMonitor ==
    [started |-> FALSE, pod |-> 0, armed |-> FALSE, lastTotalShards |-> 0,
     checks |-> EmptyBag, observed |-> <<>>, calls |-> <<>>,
     begun |-> 0, stops |-> 0]

\* No pure function is under check.
NoInput == [op |-> "none"]
NoResult == [op |-> "none"]

InFlight == BagToSet(cycles)

\* The invocation cy moves on as nxt / returns.
Continue(cy, nxt) == (cycles (-) SetToBag({cy})) (+) SetToBag({nxt})
Return(cy) == cycles (-) SetToBag({cy})

\* Rows locked FOR UPDATE by a transaction the database has not yet committed.
LockedRows == {cy.row : cy \in {d \in InFlight : d.pc = "commit"}} \ {NoRow}

\* The third argument each entry point gives getNextSurveyResponse.
ExclusionArgument(p) ==
    IF entry[p] = "part_002" THEN "activeSurveys" ELSE "undefined"

InitIdle ==
    /\ activeSurveys = [p \in Pods |-> EmptyMap]
    /\ activeCalls = [p \in Pods |-> EmptyMap]
    /\ cycles = EmptyBag
    /\ now = 1
    /\ nextCallId = 1
    /\ http = NoHttp
    /\ isShuttingDown = [p \in Pods |-> FALSE]
    /\ monitor = NoMonitor

\* No pod runs yet.
InitStopped ==
    /\ InitIdle
    /\ running = {}
    /\ podsRunning = {}
    /\ shardInfo = [p \in Pods |-> NoShard]
    /\ lastShardUpdate = [p \in Pods |-> NoTime]
    /\ rows = InitialRows
    /\ entry = [p \in Pods |-> "part_002"]

\* The fleet before its first pod runs.
InitFleet ==
    /\ InitStopped
    /\ fnIn = NoInput
    /\ fnOut = NoResult

\* One pod, alone in the fleet, whose start() has just armed the timers: the
\* shard configuration was validated, so the first ShardInfo is cached.
InitStarted ==
    /\ InitIdle
    /\ running = {1}
    /\ podsRunning = {1}
    /\ shardInfo = [p \in Pods |->
            IF p = 1 THEN [shardIndex |-> 1, totalShards |-> 1] ELSE NoShard]
    /\ lastShardUpdate = [p \in Pods |-> IF p = 1 THEN 1 ELSE NoTime]
    /\ rows = InitialRows
    /\ fnIn = NoInput
    /\ fnOut = NoResult

Init ==
    /\ InitStarted
    /\ entry = [p \in Pods |-> "part_002"]

\* ----------------------------------------------------------------- actions

\* The clock advances.
Tick ==
    /\ now < MaxTime
    /\ now' = now + 1
    /\ UNCHANGED <<running, entry, shardInfo, lastShardUpdate, rows, activeSurveys,
                   activeCalls, cycles, nextCallId, http, fnIn, fnOut,
                   isShuttingDown, podsRunning, monitor>>

\* A pod reaches phase Running and its process runs start(): initialize()
\* validates the shard configuration, which fetches and caches the first
\* ShardInfo; then the timers are armed.
PodStart(p) ==
    /\ p \notin running
    /\ running' = running \cup {p}
    /\ podsRunning' = podsRunning \cup {p}
    /\ shardInfo' = [shardInfo EXCEPT ![p] =
            [shardIndex |-> IndexOfPod(p, podsRunning'),
             totalShards |-> Cardinality(podsRunning')]]
    /\ lastShardUpdate' = [lastShardUpdate EXCEPT ![p] = now]
    /\ UNCHANGED <<entry, rows, activeSurveys, activeCalls, cycles, now,
                   nextCallId, http, fnIn, fnOut, isShuttingDown, monitor>>

\* The mutant takes a cache of exactly the TTL's age for fresh.
CacheValidInclusive(p, t) ==
    /\ shardInfo[p] # NoShard
    /\ lastShardUpdate[p] # NoTime
    /\ (t - lastShardUpdate[p]) <= ShardCacheTtl

\* getShardInfo's cache test at time t.
CacheValid(p, t) ==
    /\ shardInfo[p] # NoShard
    /\ lastShardUpdate[p] # NoTime
    /\ (t - lastShardUpdate[p]) < ShardCacheTtl

\* The invocation goes on to getNextSurveyResponse with ShardInfo si: it
\* awaits pool.connect() and BEGIN.
ToBegin(p, si) ==
    [Cycle(p, "begin") EXCEPT !.shardIndex = si.shardIndex,
                              !.totalShards = si.totalShards,
                              !.arg3 = ExclusionArgument(p)]

\* The processing timer fires (or start() makes its initial run): a new
\* processSurveyResponses begins, whether or not an earlier one has finished;
\* shutdown clears the timer.  With a fresh cache getShardInfo answers at
\* once; otherwise it lists pods.
CycleStart(p) ==
    /\ p \in running
    /\ ~isShuttingDown[p]
    /\ BagCardinality(cycles) < MaxCycles
    /\ cycles' = cycles (+) SetToBag({
            IF CacheValid(p, now)
            THEN ToBegin(p, shardInfo[p])
            ELSE [Cycle(p, "k8s") EXCEPT !.t0 = now]})
    /\ UNCHANGED <<running, entry, shardInfo, lastShardUpdate, rows, activeSurveys,
                   activeCalls, now, nextCallId, http, fnIn, fnOut,
                   isShuttingDown, podsRunning, monitor>>

\* getShardInfo's catch block: the cached value if there is one, else the
\* error goes up to processSurveyResponses, which logs it and returns.
ShardFallback(cy) ==
    /\ cycles' = IF shardInfo[cy.pod] # NoShard
                 THEN Continue(cy, ToBegin(cy.pod, shardInfo[cy.pod]))
                 ELSE Return(cy)
    /\ UNCHANGED <<shardInfo, lastShardUpdate>>

\* The mutant uses the fresh result without storing it in the cache.
ListPodsReturnUncached(cy) ==
    LET p == cy.pod
        pods == podsRunning
        shardIndex == IndexOfPod(p, pods)
    IN  /\ cy.pc = "k8s"
        /\ IF shardIndex = 0
           THEN ShardFallback(cy)
           ELSE /\ UNCHANGED <<shardInfo, lastShardUpdate>>
                /\ cycles' = Continue(cy, ToBegin(p,
                        [shardIndex |-> shardIndex, totalShards |-> Cardinality(pods)]))
        /\ UNCHANGED <<running, entry, rows, activeSurveys, activeCalls, now,
                       nextCallId, http, fnIn, fnOut,
                       isShuttingDown, podsRunning, monitor>>

\* listNamespacedPod answers: the running pods are sorted and this pod is
\* located; the cache takes the result with the time the call began.
ListPodsReturn(cy) ==
    LET p == cy.pod
        pods == podsRunning
        shardIndex == IndexOfPod(p, pods)
    IN  /\ cy.pc = "k8s"
        /\ IF shardIndex = 0
           THEN ShardFallback(cy)
           ELSE /\ shardInfo' = [shardInfo EXCEPT ![p] =
                        [shardIndex |-> shardIndex,
                         totalShards |-> Cardinality(pods)]]
                /\ lastShardUpdate' = [lastShardUpdate EXCEPT ![p] = cy.t0]
                /\ cycles' = Continue(cy, ToBegin(p, shardInfo'[p]))
        /\ UNCHANGED <<running, entry, rows, activeSurveys, activeCalls, now,
                       nextCallId, http, fnIn, fnOut,
                   isShuttingDown, podsRunning, monitor>>

\* listNamespacedPod fails.
ListPodsFail(cy) ==
    /\ cy.pc = "k8s"
    /\ ShardFallback(cy)
    /\ UNCHANGED <<running, entry, rows, activeSurveys, activeCalls, now,
                   nextCallId, http, fnIn, fnOut,
                   isShuttingDown, podsRunning, monitor>>

\* BEGIN has returned: the ids in flight are read from the map given as third
\* argument and the SELECT runs, locking the row it returns.  Without a third
\* argument activeSurveys.keys() throws a TypeError: the transaction is rolled
\* back and the invocation ends in processSurveyResponses' catch block.
TxQuery(cy) ==
    LET p == cy.pod
        excl == ActiveSurveyIds(activeSurveys[p])
        best == SelectNext(rows, LockedRows, cy.shardIndex, cy.totalShards, excl)
    IN  /\ cy.pc = "begin"
        /\ IF cy.arg3 = "undefined"
           THEN cycles' = Return(cy)
           ELSE \E r \in (IF best = {} THEN {NoRow} ELSE best) :
                    cycles' = Continue(cy, [Cycle(p, "commit") EXCEPT !.row = r])
        /\ UNCHANGED <<running, entry, shardInfo, lastShardUpdate, rows,
                       activeSurveys, activeCalls, now, nextCallId, http,
                       fnIn, fnOut,
                   isShuttingDown, podsRunning, monitor>>

\* The mutant lets the error escape processSurveyResponses: the rejection is
\* unhandled and the process goes down.
TxFailUncaught(cy) ==
    /\ cy.pc \in {"begin", "commit"}
    /\ cycles' = Return(cy)
    /\ running' = running \ {cy.pod}
    /\ UNCHANGED <<entry, shardInfo, lastShardUpdate, rows, activeSurveys,
                   activeCalls, now, nextCallId, http, fnIn, fnOut,
                   isShuttingDown, podsRunning, monitor>>

\* The connection, BEGIN, the SELECT or COMMIT fails: ROLLBACK (which gives
\* up the lock of a row the SELECT had returned), the error is thrown and
\* the invocation ends in processSurveyResponses' catch block.
TxFail(cy) ==
    /\ cy.pc \in {"begin", "commit"}
    /\ cycles' = Return(cy)
    /\ UNCHANGED <<running, entry, shardInfo, lastShardUpdate, rows, activeSurveys,
                   activeCalls, now, nextCallId, http, fnIn, fnOut,
                   isShuttingDown, podsRunning, monitor>>

\* RetellClient.isSurveyBeingProcessed
IsSurveyBeingProcessed(p, surveyId) == surveyId \in DOMAIN activeSurveys[p]

\* The statuses the Retell API may answer a rejected call creation with.
Statuses == {400, 401, 403, 404, 429, 500}

\* The mutant knows status 400 only.
IsPermanentOnly400(status) == status = 400

\* withRetry's test for an error it does not retry.
IsPermanent(status) == status = 400 \/ status = 401 \/ status = 403

\* createPhoneCall's write to activeSurveys once the API has returned a call.
TrackSurvey(m, surveyId, callId, t) ==
    MapSet(m, surveyId, [callId |-> callId, createdAt |-> t])

\* The mutant leaves activeCalls as it is.
TrackCallOmitted(m, surveyId, callId, t) == m

\* createPhoneCall's write to activeCalls once the API has returned a call.
TrackCall(m, surveyId, callId, t) ==
    MapSet(m, callId, [surveyId |-> surveyId, createdAt |-> t])

\* The mutant submits the call without looking at activeSurveys.
CreatePhoneCallUnchecked(cy, surveyId, attempt) ==
    cycles' = Continue(cy, [Cycle(cy.pod, "api") EXCEPT !.row = surveyId,
                                                        !.attempt = attempt])

\* One invocation of createPhoneCall by withRetry, up to its await: for a
\* tracked id it throws the already-being-processed error, which withRetry
\* rethrows at once and processSingleSurvey answers by returning; otherwise
\* the call creation is submitted to the Retell API.
CreatePhoneCall(cy, surveyId, attempt) ==
    IF IsSurveyBeingProcessed(cy.pod, surveyId)
    THEN cycles' = Return(cy)
    ELSE cycles' = Continue(cy, [Cycle(cy.pod, "api") EXCEPT !.row = surveyId,
                                                             !.attempt = attempt])


\* The mutant goes on to the dispatch without testing for an empty result.
TxCommitUnchecked(cy) ==
    /\ cy.pc = "commit"
    /\ CreatePhoneCall(cy, cy.row, 1)
    /\ UNCHANGED <<running, entry, shardInfo, lastShardUpdate, rows,
                   activeSurveys, activeCalls, now, nextCallId, http,
                   fnIn, fnOut,
                   isShuttingDown, podsRunning, monitor>>

\* COMMIT has returned: the lock is gone and getNextSurveyResponse returns.
\* Without a row the invocation ends.  With one, processSingleSurvey skips a
\* tracked id and otherwise makes withRetry's first attempt.
TxCommit(cy) ==
    /\ cy.pc = "commit"
    /\ IF cy.row = NoRow
       THEN cycles' = Return(cy)
       ELSE IF IsSurveyBeingProcessed(cy.pod, cy.row)
       THEN cycles' = Return(cy)
       ELSE CreatePhoneCall(cy, cy.row, 1)
    /\ UNCHANGED <<running, entry, shardInfo, lastShardUpdate, rows,
                   activeSurveys, activeCalls, now, nextCallId, http,
                   fnIn, fnOut,
                   isShuttingDown, podsRunning, monitor>>

\* The Retell API accepts the call: both maps take their entry and the
\* invocation ends.  Nothing is written to the database.
ApiAccept(cy) ==
    LET p == cy.pod
        callId == nextCallId
    IN  /\ cy.pc = "api"
        /\ nextCallId <= MaxCalls
        /\ nextCallId' = nextCallId + 1
        /\ activeCalls' = [activeCalls EXCEPT ![p] = TrackCall(@, cy.row, callId, now)]
        /\ activeSurveys' = [activeSurveys EXCEPT ![p] = TrackSurvey(@, cy.row, callId, now)]
        /\ cycles' = Return(cy)
        /\ UNCHANGED <<running, entry, shardInfo, lastShardUpdate, rows, now,
                       http, fnIn, fnOut,
                   isShuttingDown, podsRunning, monitor>>

\* The mutant records a permanent rejection in the row.
ApiRejectMarksSent(cy, status) ==
    /\ cy.pc = "api"
    /\ IF IsPermanent(status)
       THEN /\ cycles' = Return(cy)
            /\ rows' = [rows EXCEPT ![cy.row].sent = "t"]
       ELSE /\ IF cy.attempt = MaxRetries
               THEN cycles' = Return(cy)
               ELSE cycles' = Continue(cy, [cy EXCEPT !.pc = "sleep"])
            /\ UNCHANGED rows
    /\ UNCHANGED <<running, entry, shardInfo, lastShardUpdate, activeSurveys,
                   activeCalls, now, nextCallId, http, fnIn, fnOut,
                   isShuttingDown, podsRunning, monitor>>

\* The Retell API rejects the call with a status: withRetry rethrows a
\* permanent error and the error of the last attempt (processSingleSurvey
\* logs it and returns), and sleeps otherwise.
ApiReject(cy, status) ==
    /\ cy.pc = "api"
    /\ IF IsPermanent(status)
       THEN cycles' = Return(cy)
       ELSE IF cy.attempt = MaxRetries
       THEN cycles' = Return(cy)
       ELSE cycles' = Continue(cy, [cy EXCEPT !.pc = "sleep"])
    /\ UNCHANGED <<running, entry, shardInfo, lastShardUpdate, rows, activeSurveys,
                   activeCalls, now, nextCallId, http, fnIn, fnOut,
                   isShuttingDown, podsRunning, monitor>>

\* withRetry's sleep ends and the next attempt is made.
RetryWake(cy) ==
    /\ cy.pc = "sleep"
    /\ CreatePhoneCall(cy, cy.row, cy.attempt + 1)
    /\ UNCHANGED <<running, entry, shardInfo, lastShardUpdate, rows, activeSurveys,
                   activeCalls, now, nextCallId, http, fnIn, fnOut,
                   isShuttingDown, podsRunning, monitor>>

\* The mutant sweeps activeCalls and leaves activeSurveys alone.
CleanupOldCallsOnly(calls, surveys, t, maxAgeMs) ==
    [calls |-> Remove(calls, StaleKeys(calls, t, maxAgeMs)),
     surveys |-> surveys]

\* RetellClient.cleanupOldCalls(maxAgeMs): the stale keys of both maps are
\* collected against one reading of the clock, then deleted.
CleanupOldCalls(calls, surveys, t, maxAgeMs) ==
    [calls |-> Remove(calls, StaleKeys(calls, t, maxAgeMs)),
     surveys |-> Remove(surveys, StaleKeys(surveys, t, maxAgeMs))]

\* The cleanup timer fires: RetellCaller.cleanupOldCalls.  Shutdown clears
\* the timer.
Sweep(p) ==
    LET swept == CleanupOldCalls(activeCalls[p], activeSurveys[p], now, MaxAge)
    IN  /\ p \in running
        /\ ~isShuttingDown[p]
        /\ activeCalls' = [activeCalls EXCEPT ![p] = swept.calls]
        /\ activeSurveys' = [activeSurveys EXCEPT ![p] = swept.surveys]
        /\ UNCHANGED <<running, entry, shardInfo, lastShardUpdate, rows, cycles,
                       now, nextCallId, http, fnIn, fnOut,
                   isShuttingDown, podsRunning, monitor>>

\* The service that receives Retell's webhooks marks a survey processed.  An
\* UPDATE of a row locked FOR UPDATE waits for the lock.
ExternalMarkProcessed(id) ==
    /\ id \notin LockedRows
    /\ rows[id].processed # "t"
    /\ rows' = [rows EXCEPT ![id].processed = "t"]
    /\ UNCHANGED <<running, entry, shardInfo, lastShardUpdate, activeSurveys,
                   activeCalls, cycles, now, nextCallId, http, fnIn, fnOut,
                   isShuttingDown, podsRunning, monitor>>

\* A call_ended webhook for a survey reaches a pod's HTTP server.  No route
\* is registered for POST /retell/webhook, so the 404 handler answers.
WebhookCallEnded(p, surveyId) ==
    /\ p \in running
    /\ http' = [pod |-> p, surveyId |-> surveyId, status |-> 404]
    /\ UNCHANGED <<running, entry, shardInfo, lastShardUpdate, rows, activeSurveys,
                   activeCalls, cycles, now, nextCallId, fnIn, fnOut,
                   isShuttingDown, podsRunning, monitor>>

\* One process: its timers, every step an invocation in flight can take, the
\* clock, and the service that marks surveys processed.
Next ==
    \/ Tick
    \/ \E p \in Pods : CycleStart(p)
    \/ \E cy \in InFlight : ListPodsReturn(cy)
    \/ \E cy \in InFlight : ListPodsFail(cy)
    \/ \E cy \in InFlight : TxQuery(cy)
    \/ \E cy \in InFlight : TxFail(cy)
    \/ \E cy \in InFlight : TxCommit(cy)
    \/ \E cy \in InFlight : ApiAccept(cy)
    \/ \E cy \in InFlight, status \in Statuses : ApiReject(cy, status)
    \/ \E cy \in InFlight : RetryWake(cy)
    \/ \E p \in Pods : Sweep(p)
    \/ \E id \in Ids : ExternalMarkProcessed(id)

Spec == Init /\ [][Next]_vars

\* The two entry points of the repository.
EntryPoints == {"part_002", "index_js"}

\* One process, started from either entry point (a deployment runs one image).
InitEntry ==
    /\ InitStarted
    /\ \E e \in EntryPoints : entry = [p \in Pods |-> e]

SpecEntry == InitEntry /\ [][Next]_vars

\* One process whose HTTP server also receives Retell's webhooks.
NextWebhook ==
    \/ Next
    \/ \E p \in Pods, surveyId \in Ids : WebhookCallEnded(p, surveyId)

SpecWebhook == Init /\ [][NextWebhook]_vars

\* The fleet within one lifetime of the shard cache: pods join one after
\* another and every pod's timer starts invocations, overlapping or not.
NextFleet ==
    \/ \E p \in Pods : PodStart(p)
    \/ \E p \in Pods : CycleStart(p)
    \/ \E cy \in InFlight : TxQuery(cy)
    \/ \E cy \in InFlight : TxFail(cy)
    \/ \E cy \in InFlight : TxCommit(cy)
    \/ \E cy \in InFlight : ApiAccept(cy)
    \/ \E cy \in InFlight, status \in Statuses : ApiReject(cy, status)
    \/ \E cy \in InFlight : RetryWake(cy)

SpecFleet == InitFleet /\ [][NextFleet]_vars

\* One process within one lifetime of its shard cache: its processing timer,
\* every step of the claim and the dispatch, and the service that marks
\* surveys processed.
NextDispatch ==
    \/ \E id \in Ids : ExternalMarkProcessed(id)
    \/ \E p \in Pods : CycleStart(p)
    \/ \E cy \in InFlight : TxQuery(cy)
    \/ \E cy \in InFlight : TxFail(cy)
    \/ \E cy \in InFlight : TxCommit(cy)
    \/ \E cy \in InFlight : ApiAccept(cy)
    \/ \E cy \in InFlight, status \in Statuses : ApiReject(cy, status)
    \/ \E cy \in InFlight : RetryWake(cy)

SpecDispatch == Init /\ [][NextDispatch]_vars

\* ------------------------------------------------------------ the shutdown

\* The mutant arms a timer that was cleared.
ClearIntervalToggle(armed) == ~armed

\* clearInterval(monitoringInterval)
ClearInterval(armed) == FALSE

\* The function startShardMonitoring returns.
StopShardMonitoring(mon) ==
    [mon EXCEPT !.armed = ClearInterval(@),
                !.stops = IF @ < 2 THEN @ + 1 ELSE @]

\* SIGTERM or SIGINT arrives and shutdown() runs up to its first await: the
\* flag is set, the three timers are cleared and the shard monitoring is
\* stopped.  What is in flight stays in flight while shutdown() awaits the
\* HTTP server and the connection pool.
Shutdown(p) ==
    /\ p \in running
    /\ ~isShuttingDown[p]
    /\ isShuttingDown' = [isShuttingDown EXCEPT ![p] = TRUE]
    /\ monitor' = IF monitor.started /\ monitor.pod = p
                  THEN StopShardMonitoring(monitor)
                  ELSE monitor
    /\ UNCHANGED <<running, entry, shardInfo, lastShardUpdate, rows, activeSurveys,
                   activeCalls, cycles, now, nextCallId, http, fnIn, fnOut,
                   podsRunning>>

\* shutdown() has returned and the signal handler calls process.exit: the
\* process is gone with everything it had in flight and in memory.
ProcessExit(p) ==
    /\ p \in running
    /\ isShuttingDown[p]
    /\ running' = running \ {p}
    /\ cycles' = [cy \in {d \in InFlight : d.pod # p} |-> cycles[cy]]
    /\ activeSurveys' = [activeSurveys EXCEPT ![p] = EmptyMap]
    /\ activeCalls' = [activeCalls EXCEPT ![p] = EmptyMap]
    /\ UNCHANGED <<entry, shardInfo, lastShardUpdate, rows, now, nextCallId,
                   http, fnIn, fnOut, isShuttingDown, podsRunning, monitor>>

\* One process that is told to shut down at some moment.
NextShutdown ==
    \/ Next
    \/ \E p \in Pods : Shutdown(p)
    \/ \E p \in Pods : ProcessExit(p)

SpecShutdown == Init /\ [][NextShutdown]_vars

\* ------------------------------------------------------ the shard monitoring

\* the number of checks a monitoring begins
MaxChecks == 4

\* One checkShards invocation that is suspended: at listNamespacedPod inside
\* getShardInfo (pc "k8s", begun at t0) or at the callback (pc "callback").
Check(pc, t0, totalShards) == [pc |-> pc, t0 |-> t0, totalShards |-> totalShards]

\* checkShards from the point where getShardInfo has returned totalShards:
\* the total is compared with lastTotalShards; on a change the callback is
\* invoked with (old, new) and awaited, lastTotalShards still being the old
\* total; otherwise lastTotalShards takes the total and the check is over.
Observe(mon, totalShards) ==
    LET seen == [mon EXCEPT !.observed = Append(@, totalShards)]
    IN  IF mon.lastTotalShards # 0 /\ mon.lastTotalShards # totalShards
        THEN [seen EXCEPT !.calls = Append(@, <<mon.lastTotalShards, totalShards>>),
                          !.checks = @ (+) SetToBag({Check("callback", NoTime, totalShards)})]
        ELSE [seen EXCEPT !.lastTotalShards = totalShards]

\* checkShards begins: getShardInfo answers from a fresh cache at once, and
\* lists the pods otherwise.
BeginCheck(mon, p) ==
    LET begun == [mon EXCEPT !.begun = @ + 1]
    IN  IF CacheValid(p, now)
        THEN Observe(begun, shardInfo[p].totalShards)
        ELSE [begun EXCEPT !.checks = @ (+) SetToBag({Check("k8s", now, 0)})]

\* What no step of the monitoring changes.
OnlyMonitor ==
    UNCHANGED <<running, entry, rows, activeSurveys, activeCalls, cycles, now,
                nextCallId, http, fnIn, fnOut, isShuttingDown, podsRunning>>

\* start() calls startShardMonitoring: the initial check runs and the timer
\* is armed.
StartShardMonitoring(p) ==
    /\ p \in running
    /\ ~monitor.started
    /\ monitor' = BeginCheck([monitor EXCEPT !.started = TRUE, !.pod = p,
                                             !.armed = TRUE], p)
    /\ UNCHANGED <<shardInfo, lastShardUpdate>>
    /\ OnlyMonitor

\* The monitoring timer fires: another checkShards begins, whatever the
\* earlier ones are doing.
MonitorTimer ==
    /\ monitor.armed
    /\ monitor.begun < MaxChecks
    /\ monitor' = BeginCheck(monitor, monitor.pod)
    /\ UNCHANGED <<shardInfo, lastShardUpdate>>
    /\ OnlyMonitor

\* The check ch leaves the state it was suspended in.
Resumed(mon, ch) == [mon EXCEPT !.checks = @ (-) SetToBag({ch})]

\* getShardInfo's catch block inside a check: the cached total is observed if
\* there is a cached ShardInfo; else checkShards logs the error and is over.
CheckFallback(ch) ==
    /\ monitor' = IF shardInfo[monitor.pod] # NoShard
                  THEN Observe(Resumed(monitor, ch), shardInfo[monitor.pod].totalShards)
                  ELSE Resumed(monitor, ch)
    /\ UNCHANGED <<shardInfo, lastShardUpdate>>

\* listNamespacedPod answers a check.
CheckListReturn(ch) ==
    LET p == monitor.pod
        shardIndex == IndexOfPod(p, podsRunning)
    IN  /\ ch.pc = "k8s"
        /\ IF shardIndex = 0
           THEN CheckFallback(ch)
           ELSE /\ shardInfo' = [shardInfo EXCEPT ![p] =
                        [shardIndex |-> shardIndex,
                         totalShards |-> Cardinality(podsRunning)]]
                /\ lastShardUpdate' = [lastShardUpdate EXCEPT ![p] = ch.t0]
                /\ monitor' = Observe(Resumed(monitor, ch), Cardinality(podsRunning))
        /\ OnlyMonitor

\* listNamespacedPod fails a check.
CheckListFail(ch) ==
    /\ ch.pc = "k8s"
    /\ CheckFallback(ch)
    /\ OnlyMonitor

\* The callback's promise is fulfilled: lastTotalShards takes the total this
\* check saw.
CallbackReturns(ch) ==
    /\ ch.pc = "callback"
    /\ monitor' = [Resumed(monitor, ch) EXCEPT !.lastTotalShards = ch.totalShards]
    /\ UNCHANGED <<shardInfo, lastShardUpdate>>
    /\ OnlyMonitor

\* The callback's promise is rejected: checkShards logs the error.
CallbackThrows(ch) ==
    /\ ch.pc = "callback"
    /\ monitor' = Resumed(monitor, ch)
    /\ UNCHANGED <<shardInfo, lastShardUpdate>>
    /\ OnlyMonitor

\* The function startShardMonitoring returned is called.
StopMonitoringCalled ==
    /\ monitor.started
    /\ monitor' = StopShardMonitoring(monitor)
    /\ UNCHANGED <<shardInfo, lastShardUpdate>>
    /\ OnlyMonitor

\* One process monitoring its fleet while the clock runs and pods join.
NextMonitor ==
    \/ Tick
    \/ \E p \in Pods : PodStart(p)
    \/ \E p \in Pods : StartShardMonitoring(p)
    \/ MonitorTimer
    \/ \E ch \in BagToSet(monitor.checks) : CheckListReturn(ch)
    \/ \E ch \in BagToSet(monitor.checks) : CheckListFail(ch)
    \/ \E ch \in BagToSet(monitor.checks) : CallbackReturns(ch)
    \/ \E ch \in BagToSet(monitor.checks) : CallbackThrows(ch)
    \/ StopMonitoringCalled

SpecMonitor == Init /\ [][NextMonitor]_vars

\* --------------------------------------------------- getShardInfo on its own

\* A getShardInfo call of pod p's ShardingManager that awaits
\* listNamespacedPod: `now` was read when the call began (t0).  Whether the
\* cache held a ShardInfo then, and since when, is kept with the call for the
\* record of its outcome.
ShardCall(p) ==
    [pod |-> p, pc |-> "k8s", t0 |-> now,
     cachedAtCall |-> shardInfo[p] # NoShard, updatedAtCall |-> lastShardUpdate[p]]

\* The record of a finished getShardInfo call: its listing ("none" when the
\* cache answered, "failed" for a rejected request, "ok" with the pods it
\* got), the cache it found when it finished, and what it returned or threw.
ShardOutcome(call, listing, pods, si, thrown) ==
    [op |-> "getShardInfo", pod |-> call.pod, t0 |-> call.t0,
     cachedAtCall |-> call.cachedAtCall, updatedAtCall |-> call.updatedAtCall,
     listing |-> listing, pods |-> pods,
     cachedBefore |-> shardInfo[call.pod],
     updatedBefore |-> lastShardUpdate[call.pod],
     returned |-> si, thrown |-> thrown]

OnlyShardInfo ==
    UNCHANGED <<running, entry, rows, activeSurveys, activeCalls, now,
                nextCallId, http, fnIn, isShuttingDown, monitor>>

\* Kubernetes reports the pod in phase Running.
PodPhaseRunning(p) ==
    /\ p \notin podsRunning
    /\ podsRunning' = podsRunning \cup {p}
    /\ UNCHANGED <<shardInfo, lastShardUpdate, cycles, fnOut>>
    /\ OnlyShardInfo

\* Kubernetes reports the pod in another phase (Pending, Unknown, Failed).
PodPhaseOther(p) ==
    /\ p \in podsRunning
    /\ podsRunning' = podsRunning \ {p}
    /\ UNCHANGED <<shardInfo, lastShardUpdate, cycles, fnOut>>
    /\ OnlyShardInfo

\* getShardInfo is called (by validateShardConfig at start-up, then by
\* processSurveyResponses, the monitoring and the status handlers): a fresh
\* cache is returned at once, otherwise the pods are listed.
GetShardInfoCall(p) ==
    /\ p \in running
    /\ BagCardinality(cycles) < MaxCycles
    /\ IF CacheValid(p, now)
       THEN /\ fnOut' = ShardOutcome(ShardCall(p), "none", {}, shardInfo[p], "none")
            /\ UNCHANGED cycles
       ELSE /\ cycles' = cycles (+) SetToBag({ShardCall(p)})
            /\ UNCHANGED fnOut
    /\ UNCHANGED <<shardInfo, lastShardUpdate, podsRunning>>
    /\ OnlyShardInfo

\* getShardInfo's catch block: the cached ShardInfo as it is, if there is
\* one, else the error is thrown again.
GetShardInfoCatch(call, listing, pods, error) ==
    /\ fnOut' = IF shardInfo[call.pod] # NoShard
                THEN ShardOutcome(call, listing, pods, shardInfo[call.pod], "none")
                ELSE ShardOutcome(call, listing, pods, NoShard, error)
    /\ UNCHANGED <<shardInfo, lastShardUpdate>>

\* listNamespacedPod answers the call.
GetShardInfoListed(call) ==
    LET p == call.pod
        pods == podsRunning
        totalShards == Cardinality(pods)
        shardIndex == IndexOfPod(p, pods)
    IN  /\ call.pc = "k8s"
        /\ cycles' = Return(call)
        /\ IF shardIndex = 0
           THEN GetShardInfoCatch(call, "ok", pods, "not found in running pods list")
           ELSE /\ fnOut' = ShardOutcome(call, "ok", pods,
                        [shardIndex |-> shardIndex, totalShards |-> totalShards], "none")
                /\ shardInfo' = [shardInfo EXCEPT ![p] = fnOut'.returned]
                /\ lastShardUpdate' = [lastShardUpdate EXCEPT ![p] = call.t0]
        /\ UNCHANGED podsRunning
        /\ OnlyShardInfo

\* listNamespacedPod fails the call.
GetShardInfoListFails(call) ==
    /\ call.pc = "k8s"
    /\ cycles' = Return(call)
    /\ GetShardInfoCatch(call, "failed", {}, "list failed")
    /\ UNCHANGED podsRunning
    /\ OnlyShardInfo

\* One process has been launched and is about to validate its shard
\* configuration; nothing is cached and Kubernetes reports no pod as Running.
InitShardInfo ==
    /\ InitIdle
    /\ \E p \in Pods : running = {p}
    /\ podsRunning = {}
    /\ shardInfo = [p \in Pods |-> NoShard]
    /\ lastShardUpdate = [p \in Pods |-> NoTime]
    /\ rows = InitialRows
    /\ entry = [p \in Pods |-> "part_002"]
    /\ fnIn = NoInput
    /\ fnOut = NoResult

\* The ShardingManager of one process while the fleet's pods come and go.
NextShardInfo ==
    \/ Tick
    \/ \E p \in Pods : PodPhaseRunning(p)
    \/ \E p \in Pods : PodPhaseOther(p)
    \/ \E p \in Pods : GetShardInfoCall(p)
    \/ \E call \in InFlight : GetShardInfoListed(call)
    \/ \E call \in InFlight : GetShardInfoListFails(call)

SpecShardInfo == InitShardInfo /\ [][NextShardInfo]_vars

\* ------------------------------------------------- the functions on their own

MaxShardId == 12
MaxTotalShards == 4
MaxQueryRows == 2
MaxEntries == 3
\* the clock reading of the sweeps checked on their own, in minutes
SweepNow == 100
\* 30 * 60 * 1000 ms, in minutes
ThirtyMinutes == 30

\* Every variable but the function's result stays.
OnlyResult ==
    UNCHANGED <<running, entry, shardInfo, lastShardUpdate, rows, activeSurveys,
                activeCalls, cycles, now, nextCallId, http, fnIn,
                   isShuttingDown, podsRunning, monitor>>

\* The ids among ids that shard shardIndex of totalShards processes.
ShardGroup(shardIndex, totalShards, ids) ==
    {id \in ids : ShouldProcessId(id, shardIndex, totalShards)}

InitShard ==
    /\ InitStopped
    /\ fnIn \in {[op |-> "shouldProcessId", id |-> id, totalShards |-> n] :
                    id \in 0..MaxShardId, n \in 1..MaxTotalShards}
    /\ fnOut = NoResult

\* shouldProcessId is asked about one id for every shard index of the fleet.
CallShouldProcessId ==
    /\ fnIn.op = "shouldProcessId"
    /\ fnOut = NoResult
    /\ fnOut' = [op |-> "shouldProcessId",
                 owners |-> {shardIndex \in 1..fnIn.totalShards :
                                ShouldProcessId(fnIn.id, shardIndex, fnIn.totalShards)}]
    /\ OnlyResult

SpecShard == InitShard /\ [][CallShouldProcessId]_vars

Tri == {"t", "f", "null"}

\* The rows a table may hold under an id: every combination of the two
\* flags on a callable row, and the rows that are not callable.
QueryRowKinds ==
    {Row(processed, sent, "+1", "t", {}, 1) : processed \in Tri, sent \in Tri}
    \cup {Row("f", "f", phone, "t", {}, 1) : phone \in {"null", ""}}
    \cup {Row("f", "f", "+1", validated, {}, 1) : validated \in {"f", "null"}}

\* The activeSurveys maps over a set of ids.
SurveyMapsOver(ids, entries) == UNION {[S -> entries] : S \in SUBSET ids}

InitQuery ==
    /\ InitStopped
    /\ \E tbl \in [1..MaxQueryRows -> QueryRowKinds],
          locked \in SUBSET (1..MaxQueryRows),
          totalShards \in 1..NumPods,
          m \in SurveyMapsOver(1..MaxQueryRows, {[callId |-> 1, createdAt |-> 1]}) :
         \E shardIndex \in 1..totalShards :
            fnIn = [op |-> "getNextSurveyResponse", tbl |-> tbl, locked |-> locked,
                    shardIndex |-> shardIndex, totalShards |-> totalShards,
                    activeSurveys |-> m]
    /\ fnOut = NoResult

\* getNextSurveyResponse(shardIndex, totalShards, activeSurveys) on a table
\* some of whose rows other transactions hold locked.
CallGetNextSurveyResponse ==
    LET best == SelectNext(fnIn.tbl, fnIn.locked, fnIn.shardIndex, fnIn.totalShards,
                           ActiveSurveyIds(fnIn.activeSurveys))
    IN  /\ fnIn.op = "getNextSurveyResponse"
        /\ fnOut = NoResult
        /\ \E r \in (IF best = {} THEN {NoRow} ELSE best) :
              fnOut' = [op |-> "getNextSurveyResponse", row |-> r]
        /\ OnlyResult

SpecQuery == InitQuery /\ [][CallGetNextSurveyResponse]_vars

\* the number of rows of the tables the ranking is run on
MaxRankRows == 3

\* Callable rows of every urgency and of two ages, and a row already
\* processed.
RankRowKinds ==
    {Row("f", "f", "+1", "t", frustration, created) :
        frustration \in {{"extremely", "frustrated"}, {"very"}, {"frustrated"}, {}},
        created \in 1..2}
    \cup {Row("t", "f", "+1", "t", {"extremely"}, 2)}

\* A table, the rows other transactions hold locked, and the shard asking.
InitRank ==
    /\ InitStopped
    /\ \E tbl \in [1..MaxRankRows -> RankRowKinds],
          locked \in SUBSET (1..MaxRankRows),
          totalShards \in 1..NumPods :
         \E shardIndex \in 1..totalShards :
            fnIn = [op |-> "getNextSurveyResponse", tbl |-> tbl, locked |-> locked,
                    shardIndex |-> shardIndex, totalShards |-> totalShards,
                    activeSurveys |-> EmptyMap]
    /\ fnOut = NoResult

SpecRank == InitRank /\ [][CallGetNextSurveyResponse]_vars

\* The ages, in minutes, of the entries the sweep is run on.
SweepAges == {10, 30, 31, 45}

InitSweep ==
    /\ InitStopped
    /\ \E calls \in SurveyMapsOver(1..MaxEntries,
                        {[surveyId |-> 1, createdAt |-> SweepNow - a] : a \in SweepAges}),
          surveys \in SurveyMapsOver(1..MaxEntries,
                        {[callId |-> 1, createdAt |-> SweepNow - a] : a \in SweepAges}) :
         fnIn = [op |-> "cleanupOldCalls", calls |-> calls, surveys |-> surveys,
                 now |-> SweepNow, maxAgeMs |-> ThirtyMinutes]
    /\ fnOut = NoResult

\* cleanupOldCalls(30 * 60 * 1000) on the two maps.
CallCleanupOldCalls ==
    LET swept == CleanupOldCalls(fnIn.calls, fnIn.surveys, fnIn.now, fnIn.maxAgeMs)
    IN  /\ fnIn.op = "cleanupOldCalls"
        /\ fnOut = NoResult
        /\ fnOut' = [op |-> "cleanupOldCalls", calls |-> swept.calls,
                     surveys |-> swept.surveys]
        /\ OnlyResult

SpecSweep == InitSweep /\ [][CallCleanupOldCalls]_vars

\* the number of pod names a listing is drawn from
MaxPodNames == 3

\* The orders in which listNamespacedPod may give the names of a set of
\* running pods.
Listings(names) ==
    {s \in [1..Cardinality(names) -> names] :
        \A i, j \in 1..Cardinality(names) : i # j => s[i] # s[j]}

\* The mutant leaves the names in the order the API gave them.
SortOmitted(items) == items

\* Array.prototype.sort() on distinct names: ascending.
Sort(items) ==
    CHOOSE s \in Listings({items[i] : i \in DOMAIN items}) :
        \A i, j \in DOMAIN s : i < j => s[i] < s[j]

\* Array.prototype.indexOf: the first position, 0-based, or -1.
IndexOf(pods, podName) ==
    IF \E i \in DOMAIN pods : pods[i] = podName
    THEN (CHOOSE i \in DOMAIN pods :
            /\ pods[i] = podName
            /\ \A j \in DOMAIN pods : pods[j] = podName => i <= j) - 1
    ELSE -1

\* The ShardInfo getShardInfo builds for pod podName from a fetched list.
FreshShardInfo(items, podName) ==
    LET pods == Sort(items)
    IN  [shardIndex |-> IndexOf(pods, podName) + 1, totalShards |-> Len(pods)]

\* Two fetches of the same set of running pods, each in its own order.
InitPositions ==
    /\ InitStopped
    /\ \E names \in SUBSET (1..MaxPodNames) \ {{}} :
         \E a, b \in Listings(names) :
            fnIn = [op |-> "positions", items |-> <<a, b>>]
    /\ fnOut = NoResult

\* Every pod of the set computes its ShardInfo, from the one fetch and from
\* the other.
CallPositions ==
    /\ fnIn.op = "positions"
    /\ fnOut = NoResult
    /\ fnOut' = [op |-> "positions",
                 infos |-> [k \in 1..2 |->
                    [podName \in {fnIn.items[k][i] : i \in DOMAIN fnIn.items[k]} |->
                        FreshShardInfo(fnIn.items[k], podName)]]]
    /\ OnlyResult

SpecPositions == InitPositions /\ [][CallPositions]_vars

\* ------------------------------------------------------------- the retries

\* the largest maxRetries a run is given
MaxAttempts == 4

\* The three retry loops of the repository.
RetryVariants == {"RetellClient", "DatabaseClient", "retryOperation"}

\* The default baseDelay and the one processSingleSurvey gives.
BaseDelays == {1000, 2000}

\* Math.random() * 1000 lies in [0, 1000): its two ends, in whole ms.
JitterSamples == {0, 999}

\* What one invocation of the operation settles with: its value, or an error
\* with the properties the loops look at.
Success == [ok |-> TRUE, status |-> 0, code |-> "", already |-> FALSE]
HttpError(status) == [ok |-> FALSE, status |-> status, code |-> "", already |-> FALSE]
AlreadyError == [ok |-> FALSE, status |-> 0, code |-> "", already |-> TRUE]
DbError(code) == [ok |-> FALSE, status |-> 0, code |-> code, already |-> FALSE]

OperationErrors ==
    {HttpError(status) : status \in {400, 401, 403, 404, 429, 500}}
    \cup {AlreadyError}
    \cup {DbError(code) : code \in {"23505", "23503", "08006"}}

\* The errors a loop rethrows at once.  RetellClient.withRetry looks at the
\* status and the message, DatabaseClient.withRetry at the code, and
\* retryOperation at nothing.
IsPermanentFor(variant, error) ==
    CASE variant = "RetellClient" -> IsPermanent(error.status) \/ error.already
      [] variant = "DatabaseClient" -> error.code = "23505" \/ error.code = "23503"
      [] OTHER -> FALSE

\* The mutant leaves the loop one attempt early.
IsLastAttemptEarly(attempt, maxRetries) == attempt + 1 >= maxRetries

\* if (attempt === maxRetries) break;
IsLastAttempt(attempt, maxRetries) == attempt = maxRetries

\* The mutant grows the delay linearly.
BackoffDelayLinear(baseDelay, attempt) == baseDelay * attempt

\* baseDelay * Math.pow(2, attempt - 1)
BackoffDelay(baseDelay, attempt) == baseDelay * 2^(attempt - 1)

\* A run of withRetry before its first attempt.
RetryRun ==
    [op |-> "withRetry", pc |-> "call", attempt |-> 1, invocations |-> 0,
     outcomes |-> <<>>, delays |-> <<>>, jitter |-> 0, delayMs |-> 0,
     lastError |-> 0, thrown |-> 0, result |-> "pending"]

InitRetry ==
    /\ InitStopped
    /\ fnIn \in {[op |-> "withRetry", variant |-> v, maxRetries |-> n, baseDelay |-> d] :
                    v \in RetryVariants, n \in 1..MaxAttempts, d \in BaseDelays}
    /\ fnOut = RetryRun

\* The loop invokes the operation and the operation settles.  On success
\* withRetry returns the value.  On an error it keeps the error as lastError
\* (errors are told apart by the attempt that raised them), rethrows it if it
\* is permanent, leaves the loop and throws lastError after the last attempt,
\* and otherwise computes the delay and goes to sleep.
WithRetryInvoke ==
    /\ fnIn.op = "withRetry"
    /\ fnOut.pc = "call"
    /\ \E o \in {Success} \cup OperationErrors, j \in JitterSamples :
          LET run == [fnOut EXCEPT !.invocations = @ + 1,
                                   !.outcomes = Append(@, o)]
              failed == [run EXCEPT !.lastError = fnOut.attempt]
              delay == BackoffDelay(fnIn.baseDelay, fnOut.attempt)
          IN  fnOut' =
                IF o.ok
                THEN [run EXCEPT !.pc = "returned", !.result = "value"]
                ELSE IF IsPermanentFor(fnIn.variant, o)
                THEN [failed EXCEPT !.pc = "thrown", !.thrown = fnOut.attempt,
                                    !.result = "error"]
                ELSE IF IsLastAttempt(fnOut.attempt, fnIn.maxRetries)
                THEN [failed EXCEPT !.pc = "thrown", !.thrown = failed.lastError,
                                    !.result = "error"]
                ELSE [failed EXCEPT !.pc = "sleep",
                                    !.delays = Append(@, delay),
                                    !.jitter = j,
                                    !.delayMs = delay + j]
    /\ OnlyResult

\* The timer of the sleep fires: the next attempt.
WithRetrySleepEnds ==
    /\ fnIn.op = "withRetry"
    /\ fnOut.pc = "sleep"
    /\ fnOut' = [fnOut EXCEPT !.pc = "call", !.attempt = @ + 1]
    /\ OnlyResult

NextRetry ==
    \/ WithRetryInvoke
    \/ WithRetrySleepEnds

\* Every invocation of the operation settles and every timer fires.
SpecRetry == InitRetry /\ [][NextRetry]_vars /\ WF_vars(NextRetry)

\* A run given any maxRetries, zero and negative ones too, before the loop
\* has tested its condition for the first time.
InitRetryAny ==
    /\ InitStopped
    /\ fnIn \in {[op |-> "withRetry", variant |-> v, maxRetries |-> n, baseDelay |-> d] :
                    v \in RetryVariants, n \in (0 - MaxAttempts)..MaxAttempts,
                    d \in BaseDelays}
    /\ fnOut = [RetryRun EXCEPT !.pc = "loop"]

\* `for (let attempt = 1; attempt <= maxRetries; attempt++)` is entered: with
\* the condition false the body never runs and `throw lastError` throws the
\* undefined that lastError was declared with (0 here: no attempt's error).
WithRetryLoopEntry ==
    /\ fnIn.op = "withRetry"
    /\ fnOut.pc = "loop"
    /\ fnOut' = IF fnOut.attempt <= fnIn.maxRetries
                THEN [fnOut EXCEPT !.pc = "call"]
                ELSE [fnOut EXCEPT !.pc = "thrown", !.thrown = fnOut.lastError,
                                   !.result = "error"]
    /\ OnlyResult

NextRetryAny ==
    \/ WithRetryLoopEntry
    \/ WithRetryInvoke
    \/ WithRetrySleepEnds

SpecRetryAny == InitRetryAny /\ [][NextRetryAny]_vars /\ WF_vars(NextRetryAny)

\* ------------------------------------------------------ the start and the end

\* the signals the process is sent
MaxSignals == 1

\* the firings of the processing timer
MaxTicks == 2

\* What start() is run with: the pod it runs in, and what the environment
\* answers to initialize(): the required variables are set or one is missing,
\* the database health check, the shard validation, the listen of the HTTP
\* server.
StartInputs ==
    [op : {"start"}, pod : Pods, env : {"ok", "missing"},
     dbHealthy : BOOLEAN, shardValid : BOOLEAN, listenOk : BOOLEAN]

\* The process right after `new RetellCaller()`: start() is about to run,
\* nothing is constructed, no timer is armed, nobody has called shutdown().
\*   pc        where start() is: "initialize", "healthCheck", "validate",
\*             "listen", "initialRun", "started", "failed"
\*   shutdown  where the one shutdown() that got past the flag is: "none",
\*             "httpStop", "poolEnd", "done"
\*   waiter    the exit code the caller of that shutdown() exits with
\*   clears, httpStops, poolEnds
\*             how often shutdown() has gone through its timers, has called
\*             server.close() and has called pool.end()
StartRun ==
    [op |-> "start", pc |-> "initialize", constructed |-> FALSE,
     server |-> "none", processingInterval |-> FALSE, cleanupInterval |-> FALSE,
     shutdown |-> "none", waiter |-> 0, poolEnding |-> FALSE,
     exited |-> FALSE, exitCode |-> 0,
     failedInit |-> FALSE, cyclesRun |-> 0, ticks |-> 0, signals |-> 0,
     clears |-> 0, httpStops |-> 0, poolEnds |-> 0]

InitStart ==
    /\ InitStopped
    /\ fnIn \in StartInputs
    /\ fnOut = StartRun

\* What no step of the start and the end changes.
OnlyStart ==
    UNCHANGED <<running, entry, shardInfo, lastShardUpdate, rows, activeSurveys,
                activeCalls, cycles, now, nextCallId, http, fnIn, podsRunning>>

\* The mutant runs shutdown() without the test of the flag.
ShutdownThenExitUnguarded(run, p, code) ==
    IF FALSE
    THEN /\ fnOut' = [run EXCEPT !.exited = TRUE, !.exitCode = code]
         /\ UNCHANGED <<isShuttingDown, monitor>>
    ELSE LET cleared ==
                 [run EXCEPT !.processingInterval = IF @ THEN ClearInterval(@) ELSE @,
                             !.cleanupInterval = IF @ THEN ClearInterval(@) ELSE @,
                             !.clears = @ + 1,
                             !.waiter = code]
         IN  /\ isShuttingDown' = [isShuttingDown EXCEPT ![p] = TRUE]
             /\ monitor' = IF monitor.started
                           THEN StopShardMonitoring(monitor)
                           ELSE monitor
             /\ fnOut' = IF run.server = "open"
                         THEN [cleared EXCEPT !.shutdown = "httpStop",
                                              !.httpStops = @ + 1]
                         ELSE IF run.constructed
                         THEN [cleared EXCEPT !.shutdown = "poolEnd",
                                              !.poolEnding = TRUE,
                                              !.poolEnds = @ + 1]
                         ELSE [cleared EXCEPT !.shutdown = "done",
                                              !.exited = TRUE, !.exitCode = code]

\* `await this.shutdown(); process.exit(code)`.  A shutdown() that finds the
\* flag set returns at once and its caller exits.  Otherwise the flag is
\* set, the timers that are armed are cleared, the monitoring is stopped if
\* start() has started it, and shutdown() awaits the close of the HTTP
\* server if it has one, then the end of the pool if there is a database
\* client; with neither it returns and its caller exits.
ShutdownThenExit(run, p, code) ==
    IF isShuttingDown[p]
    THEN /\ fnOut' = [run EXCEPT !.exited = TRUE, !.exitCode = code]
         /\ UNCHANGED <<isShuttingDown, monitor>>
    ELSE LET cleared ==
                 [run EXCEPT !.processingInterval = IF @ THEN ClearInterval(@) ELSE @,
                             !.cleanupInterval = IF @ THEN ClearInterval(@) ELSE @,
                             !.clears = @ + 1,
                             !.waiter = code]
         IN  /\ isShuttingDown' = [isShuttingDown EXCEPT ![p] = TRUE]
             /\ monitor' = IF monitor.started
                           THEN StopShardMonitoring(monitor)
                           ELSE monitor
             /\ fnOut' = IF run.server = "open"
                         THEN [cleared EXCEPT !.shutdown = "httpStop",
                                              !.httpStops = @ + 1]
                         ELSE IF run.constructed
                         THEN [cleared EXCEPT !.shutdown = "poolEnd",
                                              !.poolEnding = TRUE,
                                              !.poolEnds = @ + 1]
                         ELSE [cleared EXCEPT !.shutdown = "done",
                                              !.exited = TRUE, !.exitCode = code]

\* initialize() throws: its catch logs and rethrows, and the catch of
\* start() awaits shutdown() and exits with code 1.
InitializeThrows(run, p) ==
    ShutdownThenExit([run EXCEPT !.pc = "failed", !.failedInit = TRUE], p, 1)

\* The mutant takes every database for a healthy one.
DbHealthyIgnored(answer) == TRUE

\* `const dbHealthy = await this.dbClient.healthCheck(); if (!dbHealthy) throw`
DbHealthy(answer) == answer

\* start() enters initialize(): validateEnvironment() throws if a required
\* variable is missing; otherwise the clients and the HTTP server object are
\* constructed and the health check is awaited.
StartInitialize ==
    /\ fnOut.op = "start" /\ ~fnOut.exited
    /\ fnOut.pc = "initialize"
    /\ IF fnIn.env = "missing"
       THEN InitializeThrows(fnOut, fnIn.pod)
       ELSE /\ fnOut' = [fnOut EXCEPT !.pc = "healthCheck", !.constructed = TRUE]
            /\ UNCHANGED <<isShuttingDown, monitor>>
    /\ OnlyStart

\* healthCheck() returns: false when the database does not answer, which it
\* may also do once the pool is ending.
HealthCheckReturns ==
    /\ fnOut.op = "start" /\ ~fnOut.exited
    /\ fnOut.pc = "healthCheck"
    /\ \E answer \in {fnIn.dbHealthy} \cup (IF fnOut.poolEnding THEN {FALSE} ELSE {}) :
          IF DbHealthy(answer)
          THEN /\ fnOut' = [fnOut EXCEPT !.pc = "validate"]
               /\ UNCHANGED <<isShuttingDown, monitor>>
          ELSE InitializeThrows(fnOut, fnIn.pod)
    /\ OnlyStart

\* validateShardConfig() returns: false throws, true calls
\* httpServer.start(), which creates the server and awaits the listen.
ValidateReturns ==
    /\ fnOut.op = "start" /\ ~fnOut.exited
    /\ fnOut.pc = "validate"
    /\ IF fnIn.shardValid
       THEN /\ fnOut' = [fnOut EXCEPT !.pc = "listen",
                                      !.server = IF @ = "none" THEN "open" ELSE @]
            /\ UNCHANGED <<isShuttingDown, monitor>>
       ELSE InitializeThrows(fnOut, fnIn.pod)
    /\ OnlyStart

\* The listen has failed: httpServer.start() rejects.
ListenFails ==
    /\ fnOut.op = "start" /\ ~fnOut.exited
    /\ fnOut.pc = "listen"
    /\ ~fnIn.listenOk
    /\ InitializeThrows(fnOut, fnIn.pod)
    /\ OnlyStart

\* The server listens and initialize() returns: start() arms the processing
\* timer and the cleanup timer, starts the shard monitoring and makes the
\* initial processing run, which returns at once if the flag is set.
ListenReturns ==
    /\ fnOut.op = "start" /\ ~fnOut.exited
    /\ fnOut.pc = "listen"
    /\ fnIn.listenOk
    /\ fnOut' = [fnOut EXCEPT
           !.processingInterval = TRUE,
           !.cleanupInterval = TRUE,
           !.pc = IF isShuttingDown[fnIn.pod] THEN "started" ELSE "initialRun",
           !.cyclesRun = IF isShuttingDown[fnIn.pod] THEN @ ELSE @ + 1]
    /\ monitor' = BeginCheck([monitor EXCEPT !.started = TRUE, !.pod = fnIn.pod,
                                             !.armed = TRUE], fnIn.pod)
    /\ UNCHANGED isShuttingDown
    /\ OnlyStart

\* The initial processing run returns and start() is over.
InitialRunReturns ==
    /\ fnOut.op = "start" /\ ~fnOut.exited
    /\ fnOut.pc = "initialRun"
    /\ fnOut' = [fnOut EXCEPT !.pc = "started"]
    /\ UNCHANGED <<isShuttingDown, monitor>>
    /\ OnlyStart

\* The processing timer fires: processSurveyResponses returns at once if the
\* flag is set and runs a cycle otherwise.
ProcessingTimer ==
    /\ fnOut.op = "start" /\ ~fnOut.exited
    /\ fnOut.processingInterval
    /\ fnOut.ticks < MaxTicks
    /\ fnOut' = [fnOut EXCEPT
           !.ticks = @ + 1,
           !.cyclesRun = IF isShuttingDown[fnIn.pod] THEN @ ELSE @ + 1]
    /\ UNCHANGED <<isShuttingDown, monitor>>
    /\ OnlyStart

\* SIGTERM or SIGINT is delivered once start() has reached its first await:
\* the handler awaits shutdown() and exits with code 0.
SignalReceived ==
    /\ fnOut.op = "start" /\ ~fnOut.exited
    /\ fnOut.pc # "initialize"
    /\ fnOut.signals < MaxSignals
    /\ ShutdownThenExit([fnOut EXCEPT !.signals = @ + 1], fnIn.pod, 0)
    /\ OnlyStart

\* An uncaughtException or unhandledRejection event is delivered: the
\* handler calls shutdown() and exits with code 1 when it has resolved.
ExceptionRaised ==
    /\ fnOut.op = "start" /\ ~fnOut.exited
    /\ fnOut.pc # "initialize"
    /\ fnOut.signals < MaxSignals
    /\ ShutdownThenExit([fnOut EXCEPT !.signals = @ + 1], fnIn.pod, 1)
    /\ OnlyStart

\* server.close() calls back: shutdown() goes on to dbClient.close().
HttpStopped ==
    /\ fnOut.op = "start" /\ ~fnOut.exited
    /\ fnOut.shutdown = "httpStop"
    /\ fnOut' = [fnOut EXCEPT !.server = "closed", !.shutdown = "poolEnd",
                              !.poolEnding = TRUE, !.poolEnds = @ + 1]
    /\ UNCHANGED <<isShuttingDown, monitor>>
    /\ OnlyStart

\* pool.end() resolves: shutdown() has completed and its caller exits.
PoolEnded ==
    /\ fnOut.op = "start" /\ ~fnOut.exited
    /\ fnOut.shutdown = "poolEnd"
    /\ fnOut' = [fnOut EXCEPT !.shutdown = "done", !.exited = TRUE,
                              !.exitCode = fnOut.waiter]
    /\ UNCHANGED <<isShuttingDown, monitor>>
    /\ OnlyStart

\* What the process does by itself, signals and timers apart.
StartSteps ==
    \/ StartInitialize
    \/ HealthCheckReturns
    \/ ValidateReturns
    \/ ListenFails
    \/ ListenReturns
    \/ InitialRunReturns
    \/ HttpStopped
    \/ PoolEnded

NextStart ==
    \/ StartInitialize
    \/ HealthCheckReturns
    \/ ValidateReturns
    \/ ListenFails
    \/ ListenReturns
    \/ InitialRunReturns
    \/ ProcessingTimer
    \/ SignalReceived
    \/ ExceptionRaised
    \/ HttpStopped
    \/ PoolEnded

\* Every awaited answer arrives in the end.
SpecStart == InitStart /\ [][NextStart]_vars /\ WF_vars(StartSteps)

\* --------------------------------------------------------- the convergence

\* A table in which every survey was handled: every query comes back empty.
HandledRows ==
    [id \in Ids |-> Row("t", "t", "+1", "t", {}, id)]

\* The fleet before its first pod runs, with nothing left to call.
InitConverge ==
    /\ InitIdle
    /\ running = {}
    /\ podsRunning = {}
    /\ shardInfo = [p \in Pods |-> NoShard]
    /\ lastShardUpdate = [p \in Pods |-> NoTime]
    /\ rows = HandledRows
    /\ entry = [p \in Pods |-> "part_002"]
    /\ fnIn = NoInput
    /\ fnOut = NoResult

\* What the process in pod p does by itself once an answer has arrived.
PodSteps(p) ==
    \E cy \in InFlight :
        /\ cy.pod = p
        /\ ListPodsReturn(cy) \/ TxQuery(cy) \/ TxCommit(cy)

\* Pods join one after another while the clock runs; every listing of the
\* pods succeeds, every timer keeps firing and every query comes back.
NextConverge ==
    \/ Tick
    \/ \E p \in Pods : PodStart(p)
    \/ \E p \in Pods : CycleStart(p)
    \/ \E cy \in InFlight : ListPodsReturn(cy)
    \/ \E cy \in InFlight : TxQuery(cy)
    \/ \E cy \in InFlight : TxCommit(cy)

SpecConverge ==
    /\ InitConverge
    /\ [][NextConverge]_vars
    /\ WF_vars(Tick)
    /\ \A p \in Pods : SF_vars(CycleStart(p))
    /\ \A p \in Pods : WF_vars(PodSteps(p))

\* ------------------------------------------------------------- the backlog

\* the rows of the backlog
MaxBacklog == 3

\* A backlog of one shard: row 1 ranks first (tier 2), the others follow in
\* tier 4, and all are callable.
BacklogRows ==
    [id \in 1..MaxBacklog |->
        Row("f", "f", "+1", "t", IF id = 1 THEN {"very"} ELSE {}, id)]

\* One pod, alone in the fleet and started, before that backlog.
InitBacklog ==
    /\ InitIdle
    /\ running = {1}
    /\ podsRunning = {1}
    /\ shardInfo = [p \in Pods |->
            IF p = 1 THEN [shardIndex |-> 1, totalShards |-> 1] ELSE NoShard]
    /\ lastShardUpdate = [p \in Pods |-> IF p = 1 THEN 1 ELSE NoTime]
    /\ rows = BacklogRows
    /\ entry = [p \in Pods |-> "part_002"]
    /\ fnIn = NoInput
    /\ fnOut = NoResult

\* The Retell API rejects every call for row 1 and accepts a call for any
\* other row; the database answers every query.
NextBacklog ==
    \/ \E p \in Pods : CycleStart(p)
    \/ \E cy \in InFlight : TxQuery(cy)
    \/ \E cy \in InFlight : TxCommit(cy)
    \/ \E cy \in InFlight : cy.row # 1 /\ ApiAccept(cy)
    \/ \E cy \in InFlight, status \in Statuses : cy.row = 1 /\ ApiReject(cy, status)
    \/ \E cy \in InFlight : RetryWake(cy)

\* What an invocation that stands at pc with row r does once its answer has
\* arrived.
BacklogStep(pc, r) ==
    \E cy \in InFlight :
        /\ cy.pc = pc
        /\ cy.row = r
        /\ \/ TxQuery(cy)
           \/ TxCommit(cy)
           \/ cy.row # 1 /\ ApiAccept(cy)
           \/ \E status \in Statuses : cy.row = 1 /\ ApiReject(cy, status)
           \/ RetryWake(cy)

\* The processing timer keeps firing and every awaited answer arrives.
SpecBacklog ==
    /\ InitBacklog
    /\ [][NextBacklog]_vars
    /\ \A p \in Pods : SF_vars(CycleStart(p))
    /\ \A pc \in {"begin", "commit", "api", "sleep"} :
          \A r \in 0..MaxBacklog : WF_vars(BacklogStep(pc, r))

\* ---------------------------------------------------------- the connections

\* the getNextSurveyResponse calls that run side by side
MaxInvocations == 2

\* One getNextSurveyResponse call before pool.connect() has answered: where
\* it is suspended, whether it holds a client, how often it has released
\* one, and how it ended ("row", "null", "connectFailed", "queryFailed",
\* "rollbackFailed").
NewCall == [pc |-> "connect", acquired |-> FALSE, released |-> 0, ended |-> "no"]

\* The pool with no client checked out and the calls not yet begun.
InitConnections ==
    /\ InitStopped
    /\ fnIn = [op |-> "connections"]
    /\ fnOut = [op |-> "connections", checkedOut |-> 0,
                calls |-> [i \in 1..MaxInvocations |-> NewCall]]

\* The mutant forgets the release.
ReleaseOmitted(run, i) == run

\* client.release() in the finally block of call i.
Release(run, i) ==
    [run EXCEPT !.checkedOut = @ - 1, !.calls[i].released = @ + 1]

\* The try block is left by return or by the throw of the catch block: the
\* finally block releases the client and the call ends.
Finally(run, i, ended) ==
    Release([run EXCEPT !.calls[i].pc = "ended", !.calls[i].ended = ended], i)

\* pool.connect() answers: a client is checked out and BEGIN is sent, or the
\* promise rejects before the try block and the call throws with no client.
ConnectSettles(i) ==
    /\ fnOut.op = "connections"
    /\ fnOut.calls[i].pc = "connect"
    /\ \E ok \in BOOLEAN :
          fnOut' = IF ok
                   THEN [fnOut EXCEPT !.checkedOut = @ + 1,
                                      !.calls[i].acquired = TRUE,
                                      !.calls[i].pc = "begin"]
                   ELSE [fnOut EXCEPT !.calls[i].pc = "ended",
                                      !.calls[i].ended = "connectFailed"]
    /\ OnlyResult

\* BEGIN answers: the SELECT is sent (or reading the keys of the third
\* argument throws), or BEGIN has failed; a failure sends ROLLBACK.
BeginSettles(i) ==
    /\ fnOut.op = "connections"
    /\ fnOut.calls[i].pc = "begin"
    /\ \E nxt \in {"query", "rollback"} :
          fnOut' = [fnOut EXCEPT !.calls[i].pc = nxt]
    /\ OnlyResult

\* The SELECT answers with a row or with none and COMMIT is sent, or it has
\* failed and ROLLBACK is sent.
QuerySettles(i) ==
    /\ fnOut.op = "connections"
    /\ fnOut.calls[i].pc = "query"
    /\ \E nxt \in {"commitRow", "commitEmpty", "rollback"} :
          fnOut' = [fnOut EXCEPT !.calls[i].pc = nxt]
    /\ OnlyResult

\* COMMIT answers: the call returns the row or null, or COMMIT has failed
\* and ROLLBACK is sent.
CommitSettles(i) ==
    /\ fnOut.op = "connections"
    /\ fnOut.calls[i].pc \in {"commitRow", "commitEmpty"}
    /\ \E ok \in BOOLEAN :
          fnOut' = IF ok
                   THEN Finally(fnOut, i, IF fnOut.calls[i].pc = "commitRow"
                                          THEN "row" ELSE "null")
                   ELSE [fnOut EXCEPT !.calls[i].pc = "rollback"]
    /\ OnlyResult

\* ROLLBACK answers and the catch block throws the error it caught, or
\* ROLLBACK itself fails and its error leaves the catch block.
RollbackSettles(i) ==
    /\ fnOut.op = "connections"
    /\ fnOut.calls[i].pc = "rollback"
    /\ \E ended \in {"queryFailed", "rollbackFailed"} :
          fnOut' = Finally(fnOut, i, ended)
    /\ OnlyResult

NextConnections ==
    \/ \E i \in 1..MaxInvocations : ConnectSettles(i)
    \/ \E i \in 1..MaxInvocations : BeginSettles(i)
    \/ \E i \in 1..MaxInvocations : QuerySettles(i)
    \/ \E i \in 1..MaxInvocations : CommitSettles(i)
    \/ \E i \in 1..MaxInvocations : RollbackSettles(i)

SpecConnections == InitConnections /\ [][NextConnections]_vars

\* ------------------------------------------------------------------ claims

\* C1: within one process, for every survey id, the call creations submitted
\* and not yet answered plus the entry tracked for the id never number more
\* than one, in every interleaving of overlapping processSurveyResponses runs.
C1_AtMostOneOutstandingCall ==
    \A p \in Pods, s \in Ids :
        LET pending == {cy \in InFlight : cy.pod = p /\ cy.pc = "api" /\ cy.row = s}
            submitted == BagCardinality([cy \in pending |-> cycles[cy]])
            tracked == IF s \in DOMAIN activeSurveys[p] THEN 1 ELSE 0
        IN  submitted + tracked <= 1

\* C2: for every id and every totalShards >= 1 exactly one shard index in
\* 1..totalShards processes the id; with three shards the ids 1..9 fall into
\* three groups of three.
C2_ExactlyOneOwner ==
    fnOut.op = "shouldProcessId" =>
        /\ Cardinality(fnOut.owners) = 1
        /\ fnOut.owners = {(fnIn.id % fnIn.totalShards) + 1}
        /\ fnIn.totalShards = 3 =>
              /\ \A shardIndex \in 1..3 :
                    Cardinality(ShardGroup(shardIndex, 3, 1..9)) = 3
              /\ ShardGroup(1, 3, 1..9) = {3, 6, 9}
              /\ ShardGroup(2, 3, 1..9) = {1, 4, 7}
              /\ ShardGroup(3, 3, 1..9) = {2, 5, 8}

\* Id 9 of three shards belongs to shard 1 alone.
C2_Witness ==
    /\ fnOut.op = "shouldProcessId"
    /\ fnIn.id = 9
    /\ fnIn.totalShards = 3
    /\ fnOut.owners = {1}

\* C3: a row returned by getNextSurveyResponse is not processed, not marked
\* as sent to Retell, has id mod totalShards = shardIndex - 1, and its id is
\* no key of the activeSurveys map passed in.
C3_ReturnedRowIsEligible ==
    (fnOut.op = "getNextSurveyResponse" /\ fnOut.row # NoRow) =>
        /\ fnIn.tbl[fnOut.row].processed # "t"
        /\ fnIn.tbl[fnOut.row].sent # "t"
        /\ (fnOut.row % fnIn.totalShards) = (fnIn.shardIndex - 1)
        /\ fnOut.row \notin DOMAIN fnIn.activeSurveys

\* Shard 1 of 2 is given row 2 while row 2 of the other shard is tracked and
\* row 1 is marked as sent.
C3_Witness ==
    /\ fnOut.op = "getNextSurveyResponse"
    /\ fnOut.row = 2
    /\ fnIn.shardIndex = 1
    /\ fnIn.totalShards = 2
    /\ fnIn.tbl[1].sent = "t"
    /\ DOMAIN fnIn.activeSurveys = {1}

\* C4: every processSurveyResponses run gives getNextSurveyResponse the
\* activeSurveys map as the set of ids to leave out.
C4_ExclusionMapAlwaysPassed ==
    \A cy \in InFlight : cy.pc = "begin" => cy.arg3 = "activeSurveys"

\* C5: no two claim transactions that are open at once, of one process or of
\* two, hold the same row.
C5_NoTwoOpenClaimsShareRow ==
    \A cy \in InFlight :
        (cy.pc = "commit" /\ cy.row # NoRow) =>
            LET holders == {d \in InFlight : d.pc = "commit" /\ d.row = cy.row}
            IN  BagCardinality([d \in holders |-> cycles[d]]) = 1

\* One transaction holds row 1 while another, whose shard owns row 1 and whose
\* process does not track it, has got no row and is still open.
C5_Witness ==
    \E a \in InFlight, b \in InFlight :
        /\ a.pc = "commit" /\ a.row = 1
        /\ b.pc = "commit" /\ b.row = NoRow
        /\ ShouldProcessId(1, shardInfo[b.pod].shardIndex, shardInfo[b.pod].totalShards)
        /\ 1 \notin DOMAIN activeSurveys[b.pod]
        /\ RowEligible(rows[1])

\* C6: no survey id is dispatched by two processes, also while their cached
\* shard pairs differ.
C6_NoIdDispatchedByTwoProcesses ==
    \A s \in Ids, p \in Pods, q \in Pods :
        p # q => ~(s \in DOMAIN activeSurveys[p] /\ s \in DOMAIN activeSurveys[q])

\* C7: when withRetry's next attempt calls createPhoneCall for an id that
\* activeSurveys tracks, the run ends there: no call creation is submitted,
\* no further attempt is made, and both maps stay as they are.
C7_TrackedIdFailsWithoutSideEffects ==
    [][\A cy \in InFlight :
            (/\ cy.pc = "sleep"
             /\ cy.row \in DOMAIN activeSurveys[cy.pod]
             /\ CopiesIn(cy, cycles') < CopiesIn(cy, cycles))
            => /\ cycles' = Return(cy)
               /\ UNCHANGED <<activeSurveys, activeCalls, nextCallId>>]_vars

\* A run sleeps between attempts while another run has got its id tracked.
C7_Witness ==
    \E cy \in InFlight :
        /\ cy.pc = "sleep"
        /\ cy.row \in DOMAIN activeSurveys[cy.pod]
        /\ ENABLED RetryWake(cy)

\* C8: cleanupOldCalls removes from either map exactly the entries whose age
\* is above maxAge and leaves the others as they were; of entries aged 10, 31
\* and 45 minutes, with 30 minutes, the first alone stays.
C8_SweepRemovesExactlyOlderThanMaxAge ==
    fnOut.op = "cleanupOldCalls" =>
        /\ DOMAIN fnOut.surveys =
              {k \in DOMAIN fnIn.surveys :
                  fnIn.now - fnIn.surveys[k].createdAt <= fnIn.maxAgeMs}
        /\ \A k \in DOMAIN fnOut.surveys : fnOut.surveys[k] = fnIn.surveys[k]
        /\ DOMAIN fnOut.calls =
              {k \in DOMAIN fnIn.calls :
                  fnIn.now - fnIn.calls[k].createdAt <= fnIn.maxAgeMs}
        /\ \A k \in DOMAIN fnOut.calls : fnOut.calls[k] = fnIn.calls[k]
        /\ (/\ DOMAIN fnIn.surveys = {1, 2, 3}
            /\ fnIn.surveys[1].createdAt = fnIn.now - 10
            /\ fnIn.surveys[2].createdAt = fnIn.now - 31
            /\ fnIn.surveys[3].createdAt = fnIn.now - 45
            /\ fnIn.maxAgeMs = 30)
           => DOMAIN fnOut.surveys = {1}

\* The sweep has run on entries aged 10, 31 and 45 minutes and an entry of
\* activeCalls aged exactly 30 minutes.
C8_Witness ==
    /\ fnOut.op = "cleanupOldCalls"
    /\ DOMAIN fnIn.surveys = {1, 2, 3}
    /\ fnIn.surveys[1].createdAt = fnIn.now - 10
    /\ fnIn.surveys[2].createdAt = fnIn.now - 31
    /\ fnIn.surveys[3].createdAt = fnIn.now - 45
    /\ DOMAIN fnIn.calls = {1}
    /\ fnIn.calls[1].createdAt = fnIn.now - 30
    /\ DOMAIN fnOut.surveys = {1}
    /\ DOMAIN fnOut.calls = {1}

\* C9: an entry older than maxAge does not stay: the sweep can run and takes
\* the id out of the ids left out of the claim query; a claim query of the
\* owning shard can then return the id if its row is still eligible and ranks
\* first, and the run that got it submits a call for it.
C9_StaleEntryIsSweptAndReclaimable ==
    \A p \in running :
        /\ \A s \in DOMAIN activeSurveys[p] :
              now - activeSurveys[p][s].createdAt > MaxAge =>
                  ENABLED (Sweep(p) /\ s \notin ActiveSurveyIds(activeSurveys'[p]))
        /\ \A cy \in InFlight, s \in Ids :
              (/\ cy.pod = p
               /\ cy.pc = "begin"
               /\ cy.arg3 = "activeSurveys"
               /\ s \notin DOMAIN activeSurveys[p]
               /\ s \in SelectNext(rows, LockedRows, cy.shardIndex, cy.totalShards, {}))
              => ENABLED (/\ TxQuery(cy)
                          /\ cycles' = Continue(cy, [Cycle(p, "commit") EXCEPT !.row = s]))
        /\ \A cy \in InFlight :
              (/\ cy.pod = p
               /\ cy.pc = "commit"
               /\ cy.row # NoRow
               /\ cy.row \notin DOMAIN activeSurveys[p])
              => ENABLED (/\ TxCommit(cy)
                          /\ cycles' = Continue(cy, [Cycle(p, "api") EXCEPT !.row = cy.row,
                                                                            !.attempt = 1]))

\* The one call made so far was for id 1 and the sweep has taken its entries
\* out of both maps; the only run in flight is about to query, and row 1 is
\* still eligible.
C9_Witness ==
    \E p \in running, cy \in InFlight :
        /\ cy.pod = p
        /\ cy.pc = "begin"
        /\ BagCardinality(cycles) = 1
        /\ nextCallId = 2
        /\ activeSurveys[p] = EmptyMap
        /\ activeCalls[p] = EmptyMap
        /\ 1 \in SelectNext(rows, LockedRows, cy.shardIndex, cy.totalShards, {})

\* C10: a call_ended webhook for a tracked survey id takes the id's entry out
\* of activeSurveys.
C10_CompletionSignalRemovesEntry ==
    [][\A p \in Pods, s \in Ids :
            (/\ http' # http
             /\ http'.pod = p
             /\ http'.surveyId = s
             /\ s \in DOMAIN activeSurveys[p])
            => s \notin DOMAIN activeSurveys'[p]]_vars

\* C11: while every attempt so far has failed transiently and fewer than
\* maxRetries attempts were made, withRetry goes on: each failure is followed
\* by one sleep and another attempt.  When the operation then succeeds after
\* f failures, withRetry returns its value after exactly f + 1 invocations and
\* f sleeps (f = 2 with maxRetries = 3: the value, after two sleeps).
C11_SucceedsAfterTransientFailures ==
    fnOut.op = "withRetry" =>
        LET n == Len(fnOut.outcomes)
            transient(k) == /\ ~fnOut.outcomes[k].ok
                            /\ ~IsPermanentFor(fnIn.variant, fnOut.outcomes[k])
        IN  /\ ((\A k \in 1..n : transient(k)) /\ n < fnIn.maxRetries) =>
                  /\ fnOut.pc \in {"call", "sleep"}
                  /\ Len(fnOut.delays) = n
                  /\ fnOut.invocations = n
            /\ (n >= 1 /\ fnOut.outcomes[n].ok) =>
                  /\ fnOut.pc = "returned"
                  /\ fnOut.result = "value"
                  /\ \A k \in 1..(n - 1) : transient(k)
                  /\ n - 1 < fnIn.maxRetries
                  /\ fnOut.invocations = (n - 1) + 1
                  /\ Len(fnOut.delays) = n - 1

\* RetellClient.withRetry with maxRetries 3 has returned the value after two
\* failures with status 500 and two sleeps.
C11_Witness ==
    /\ fnOut.op = "withRetry"
    /\ fnIn.variant = "RetellClient"
    /\ fnIn.maxRetries = 3
    /\ fnOut.outcomes = <<HttpError(500), HttpError(500), Success>>
    /\ fnOut.pc = "returned"
    /\ fnOut.result = "value"
    /\ fnOut.invocations = 3
    /\ Len(fnOut.delays) = 2

\* C12: when the operation's error is permanent (RetellClient: status 400, 401
\* or 403, or the already-being-processed error; DatabaseClient: code 23505 or
\* 23503), withRetry throws the error of that attempt at once; when it is the
\* first attempt's, the operation was invoked once and withRetry never slept.
C12_PermanentErrorIsNotRetried ==
    fnOut.op = "withRetry" =>
        LET n == Len(fnOut.outcomes)
            permanent(o) ==
                /\ ~o.ok
                /\ \/ /\ fnIn.variant = "RetellClient"
                      /\ (o.status \in {400, 401, 403} \/ o.already)
                   \/ /\ fnIn.variant = "DatabaseClient"
                      /\ o.code \in {"23505", "23503"}
        IN  /\ (n >= 1 /\ permanent(fnOut.outcomes[n])) =>
                  /\ fnOut.pc = "thrown"
                  /\ fnOut.thrown = n
                  /\ fnOut.invocations = n
                  /\ Len(fnOut.delays) = n - 1
            /\ (n >= 1 /\ permanent(fnOut.outcomes[1])) =>
                  /\ n = 1
                  /\ fnOut.invocations = 1
                  /\ fnOut.delays = <<>>
                  /\ fnOut.thrown = 1

\* RetellClient.withRetry with maxRetries 3 has thrown the 403 of its only
\* attempt.
C12_Witness ==
    /\ fnOut.op = "withRetry"
    /\ fnIn.variant = "RetellClient"
    /\ fnIn.maxRetries = 3
    /\ fnOut.outcomes = <<HttpError(403)>>
    /\ fnOut.pc = "thrown"
    /\ fnOut.thrown = 1
    /\ fnOut.delays = <<>>

\* C13: withRetry never invokes the operation more than maxRetries times and
\* never sleeps after the last attempt; when every attempt failed transiently
\* it has thrown the error of the last attempt after exactly maxRetries
\* invocations and maxRetries - 1 sleeps; and every run ends.
C13_ExhaustedRetriesTerminate ==
    /\ [](fnOut.op = "withRetry" =>
            LET n == Len(fnOut.outcomes)
            IN  /\ fnOut.invocations <= fnIn.maxRetries
                /\ fnOut.pc = "sleep" => fnOut.invocations < fnIn.maxRetries
                /\ (/\ n = fnIn.maxRetries \/ fnOut.pc = "thrown"
                    /\ \A k \in 1..n :
                          /\ ~fnOut.outcomes[k].ok
                          /\ ~IsPermanentFor(fnIn.variant, fnOut.outcomes[k]))
                   => /\ fnOut.pc = "thrown"
                      /\ fnOut.invocations = fnIn.maxRetries
                      /\ Len(fnOut.delays) = fnIn.maxRetries - 1
                      /\ fnOut.thrown = fnIn.maxRetries)
    /\ <>(fnOut.pc \in {"returned", "thrown"})

\* retryOperation with maxRetries 3 has thrown the third error after three
\* failures and two sleeps.
C13_Witness ==
    /\ fnOut.op = "withRetry"
    /\ fnIn.variant = "retryOperation"
    /\ fnIn.maxRetries = 3
    /\ fnOut.outcomes = <<HttpError(500), DbError("08006"), HttpError(400)>>
    /\ fnOut.pc = "thrown"
    /\ fnOut.thrown = 3
    /\ fnOut.invocations = 3
    /\ Len(fnOut.delays) = 2

\* C14: the sleep after the k-th failed attempt lasts baseDelay * 2^(k-1) ms
\* plus a jitter in [0, 1000): each delay before jitter is twice the one
\* before it and at least every earlier one.
C14_DelaysDouble ==
    fnOut.op = "withRetry" =>
        /\ \A k \in 1..Len(fnOut.delays) :
              /\ fnOut.delays[k] = fnIn.baseDelay * 2^(k - 1)
              /\ k > 1 => fnOut.delays[k] = 2 * fnOut.delays[k - 1]
              /\ \A j \in 1..k : fnOut.delays[j] <= fnOut.delays[k]
        /\ fnOut.pc = "sleep" =>
              /\ Len(fnOut.delays) = fnOut.attempt
              /\ fnOut.jitter >= 0
              /\ fnOut.jitter < 1000
              /\ fnOut.delayMs = fnOut.delays[fnOut.attempt] + fnOut.jitter

\* With baseDelay 2000 the run sleeps for the third time: 2000, 4000, then
\* 8000 ms and a jitter of 999 ms.
C14_Witness ==
    /\ fnOut.op = "withRetry"
    /\ fnIn.baseDelay = 2000
    /\ fnOut.pc = "sleep"
    /\ fnOut.delays = <<2000, 4000, 8000>>
    /\ fnOut.delayMs = 8999

\* C15: once isShuttingDown is set, a withRetry that sleeps between attempts
\* does not invoke the operation again: no run of a process that is shutting
\* down goes from its sleep to another call creation.
C15_RetryLoopObservesShutdown ==
    [][\A cy \in InFlight :
            (cy.pc = "sleep" /\ isShuttingDown[cy.pod])
            => cycles' # Continue(cy, [Cycle(cy.pod, "api")
                                          EXCEPT !.row = cy.row,
                                                 !.attempt = cy.attempt + 1])]_vars

\* C16: the callback is invoked exactly once for every change between two
\* totals observed one after the other, with the old and the new total of
\* that change, and for nothing else, also while checks overlap.
C16_CallbackOncePerChange ==
    LET obs == monitor.observed
        changes == {k \in 2..Len(obs) : obs[k] # obs[k - 1]}
    IN  /\ Len(monitor.calls) = Cardinality(changes)
        /\ \A k \in changes :
              monitor.calls[Cardinality({j \in changes : j <= k})] = <<obs[k - 1], obs[k]>>

\* C17: startShardMonitoring begins one check at once and arms the timer;
\* every later check is begun by the armed timer, one at a time; once the
\* returned function was called the timer is not armed and no check begins;
\* calling it again changes nothing.
C17_StopEndsPeriodicChecks ==
    /\ [](/\ monitor.started => monitor.begun >= 1
          /\ monitor.stops >= 1 => ~monitor.armed)
    /\ [][/\ (~monitor.started /\ monitor'.started) =>
                (monitor'.begun = 1 /\ monitor'.armed)
          /\ monitor'.begun # monitor.begun =>
                /\ monitor'.begun = monitor.begun + 1
                /\ monitor.armed \/ ~monitor.started
          /\ monitor.stops >= 1 => monitor'.begun = monitor.begun
          /\ (monitor.stops >= 1 /\ monitor'.stops # monitor.stops) =>
                monitor' = [monitor EXCEPT !.stops = monitor'.stops]]_vars

\* The returned function was called twice after the timer had begun a check.
C17_Witness ==
    /\ monitor.started
    /\ monitor.begun >= 2
    /\ monitor.stops = 2
    /\ ~monitor.armed

\* C18: a getShardInfo call that finds a cached ShardInfo younger than the
\* TTL returns it without listing the pods; any other call lists them, and a
\* list that holds this pod replaces the cache by the fresh ShardInfo and the
\* timestamp by the time the call began.
C18_CacheWithinTtl ==
    fnOut.op = "getShardInfo" =>
        LET young == /\ fnOut.cachedAtCall
                     /\ fnOut.updatedAtCall # NoTime
                     /\ fnOut.t0 - fnOut.updatedAtCall < ShardCacheTtl
        IN  /\ young => /\ fnOut.listing = "none"
                        /\ fnOut.returned = fnOut.cachedBefore
                        /\ fnOut.returned # NoShard
                        /\ fnOut.thrown = "none"
            /\ ~young => fnOut.listing # "none"
            /\ (fnOut.listing = "ok" /\ fnOut.pod \in fnOut.pods) =>
                    /\ fnOut.returned =
                            [shardIndex |-> Cardinality({q \in fnOut.pods : q < fnOut.pod}) + 1,
                             totalShards |-> Cardinality(fnOut.pods)]
                    /\ fnOut.thrown = "none"
                    /\ shardInfo[fnOut.pod] = fnOut.returned
                    /\ lastShardUpdate[fnOut.pod] = fnOut.t0

\* A call found its cache expired, listed the pods and replaced the cached
\* ShardInfo by a different one.
C18_Witness ==
    /\ fnOut.op = "getShardInfo"
    /\ fnOut.listing = "ok"
    /\ fnOut.cachedAtCall
    /\ fnOut.t0 - fnOut.updatedAtCall >= ShardCacheTtl
    /\ fnOut.returned # fnOut.cachedBefore
    /\ shardInfo[fnOut.pod] = fnOut.returned

\* C19: when the listing fails, a cached ShardInfo is returned marked as stale
\* and the cache stays as it was; with nothing cached the failure is thrown.
C19_FailedRefreshServesStale ==
    (fnOut.op = "getShardInfo" /\ fnOut.listing = "failed") =>
        IF fnOut.cachedBefore # NoShard
        THEN /\ fnOut.thrown = "none"
             /\ fnOut.returned.shardIndex = fnOut.cachedBefore.shardIndex
             /\ fnOut.returned.totalShards = fnOut.cachedBefore.totalShards
             /\ "stale" \in DOMAIN fnOut.returned
             /\ shardInfo[fnOut.pod] = fnOut.cachedBefore
             /\ lastShardUpdate[fnOut.pod] = fnOut.updatedBefore
        ELSE fnOut.thrown = "list failed"

\* C20: a list that lacks this pod makes getShardInfo throw the not-found
\* error when nothing is cached and return the cached ShardInfo otherwise,
\* the cache staying as it was; no ShardInfo returned or cached has index 0.
C20_SelfNotFound ==
    /\ \A p \in Pods : shardInfo[p] # NoShard => shardInfo[p].shardIndex >= 1
    /\ fnOut.op = "getShardInfo" =>
        /\ fnOut.thrown = "none" => fnOut.returned.shardIndex >= 1
        /\ (fnOut.listing = "ok" /\ fnOut.pod \notin fnOut.pods) =>
            /\ IF fnOut.cachedBefore = NoShard
               THEN fnOut.thrown = "not found in running pods list"
               ELSE fnOut.thrown = "none" /\ fnOut.returned = fnOut.cachedBefore
            /\ shardInfo[fnOut.pod] = fnOut.cachedBefore
            /\ lastShardUpdate[fnOut.pod] = fnOut.updatedBefore

\* A process with a cached ShardInfo got a list without its own pod and
\* returned the cached ShardInfo.
C20_Witness ==
    /\ fnOut.op = "getShardInfo"
    /\ fnOut.listing = "ok"
    /\ fnOut.pods # {}
    /\ fnOut.pod \notin fnOut.pods
    /\ fnOut.cachedBefore # NoShard
    /\ fnOut.returned = fnOut.cachedBefore

\* C21: every ShardInfo getShardInfo returns (fresh, from the cache, or as the
\* fallback after a failure) has totalShards >= 1 and
\* 1 <= shardIndex <= totalShards.
C21_ReturnedShardInfoInRange ==
    (fnOut.op = "getShardInfo" /\ fnOut.thrown = "none") =>
        /\ fnOut.returned.totalShards >= 1
        /\ 1 <= fnOut.returned.shardIndex
        /\ fnOut.returned.shardIndex <= fnOut.returned.totalShards

\* The fallback after a failed listing returned the second of two shards.
C21_Witness ==
    /\ fnOut.op = "getShardInfo"
    /\ fnOut.listing = "failed"
    /\ fnOut.thrown = "none"
    /\ fnOut.returned = [shardIndex |-> 2, totalShards |-> 2]

\* C22: processes that fetch the same set of running pod names, in whatever
\* order the API lists them, compute the same totalShards and the same
\* position for each name; the positions are pairwise distinct and are
\* exactly 1..totalShards.
C22_SameSetSamePositions ==
    fnOut.op = "positions" =>
        LET names == DOMAIN fnOut.infos[1]
            one == fnOut.infos[1]
            other == fnOut.infos[2]
        IN  /\ \A n \in names : one[n] = other[n]
            /\ \A n \in names : one[n].totalShards = Cardinality(names)
            /\ \A n, o \in names : n # o => one[n].shardIndex # one[o].shardIndex
            /\ {one[n].shardIndex : n \in names} = 1..Cardinality(names)

\* Three pods were listed in two different orders.
C22_Witness ==
    /\ fnOut.op = "positions"
    /\ Len(fnIn.items[1]) = 3
    /\ fnIn.items[1] # fnIn.items[2]
    /\ fnOut.infos[1][2].shardIndex = 2

\* C23: no process has two processSurveyResponses invocations in flight: a
\* tick that fires during an unfinished invocation starts nothing.
C23_OneCycleInFlightPerProcess ==
    \A p \in Pods :
        BagCardinality([cy \in {d \in InFlight : d.pod = p} |-> cycles[cy]]) <= 1

\* C24: whatever step an invocation of processSurveyResponses takes or ends
\* with, its process keeps running with the processing timer armed, and the
\* timer can start the next invocation.
C24_FailureNeverStopsTheLoop ==
    /\ [](\A p \in running :
            (~isShuttingDown[p] /\ BagCardinality(cycles) < MaxCycles)
            => ENABLED CycleStart(p))
    /\ [][\A cy \in InFlight :
            cycles' # cycles
            => /\ cy.pod \in running'
               /\ ~isShuttingDown'[cy.pod]]_vars

\* The last attempt of withRetry stands at the API, where a rejection ends
\* the invocation, and the timer can start another.
C24_Witness ==
    \E cy \in InFlight :
        /\ cy.pc = "api"
        /\ cy.attempt = MaxRetries
        /\ ENABLED ApiReject(cy, 500)
        /\ ENABLED CycleStart(cy.pod)

\* C26: the claim query's shard filter and shouldProcessId agree: for every
\* id >= 0, every totalShards >= 1 and every shardIndex in 1..totalShards the
\* query can see an otherwise eligible row with that id exactly when
\* shouldProcessId holds; shouldProcessId(7, 2, 2) holds and
\* shouldProcessId(8, 2, 2) does not.
C26_QueryFilterAgreesWithShouldProcessId ==
    fnOut.op = "shouldProcessId" =>
        LET tbl == [id \in {fnIn.id} |-> Row("f", "f", "+1", "t", {}, 1)]
        IN  /\ \A shardIndex \in 1..fnIn.totalShards :
                  (shardIndex \in fnOut.owners)
                  <=> (fnIn.id \in Candidates(tbl, {}, shardIndex, fnIn.totalShards, {}))
            /\ (fnIn.id = 7 /\ fnIn.totalShards = 2) => 2 \in fnOut.owners
            /\ (fnIn.id = 8 /\ fnIn.totalShards = 2) => 2 \notin fnOut.owners

\* Id 7 of two shards: shard 2 processes it and the query of shard 2 sees it.
C26_Witness ==
    /\ fnOut.op = "shouldProcessId"
    /\ fnIn.id = 7
    /\ fnIn.totalShards = 2
    /\ fnOut.owners = {2}
    /\ Candidates([id \in {7} |-> Row("f", "f", "+1", "t", {}, 1)], {}, 2, 2, {}) = {7}

\* C27: RetellClient.withRetry retries a 429 and a 5xx answer, with a delay
\* that doubles, and invokes the operation once only for every other 4xx
\* answer, which it rethrows.
C27_Other4xxIsNotRetried ==
    (fnIn.op = "withRetry" /\ fnIn.variant = "RetellClient") =>
        \A k \in 1..Len(fnOut.outcomes) :
            LET status == fnOut.outcomes[k].status
            IN  /\ (status = 429 \/ status >= 500) =>
                      \/ k = fnIn.maxRetries
                      \/ Len(fnOut.delays) >= k
                         /\ fnOut.delays[k] = fnIn.baseDelay * 2^(k - 1)
                /\ (status >= 400 /\ status < 500 /\ status # 429) =>
                      /\ k = 1
                      /\ Len(fnOut.outcomes) = 1
                      /\ fnOut.pc = "thrown"

\* C28: getNextSurveyResponse returns one row or none, and none only if the
\* shard has no eligible unlocked row; no other eligible unlocked row of the
\* shard has a better urgency tier than the row returned (extremely, then
\* very, then frustrated, then the rest), or the same tier and a later
\* created_at.
C28_ReturnedRowRanksFirst ==
    fnOut.op = "getNextSurveyResponse" =>
        LET tbl == fnIn.tbl
            tier(id) == IF "extremely" \in tbl[id].frustration THEN 1
                        ELSE IF "very" \in tbl[id].frustration THEN 2
                        ELSE IF "frustrated" \in tbl[id].frustration THEN 3
                        ELSE 4
            open == {id \in DOMAIN tbl :
                        /\ RowEligible(tbl[id])
                        /\ id \notin fnIn.locked
                        /\ id \notin DOMAIN fnIn.activeSurveys
                        /\ id % fnIn.totalShards = fnIn.shardIndex - 1}
            r == fnOut.row
        IN  /\ r \in open \cup {NoRow}
            /\ r = NoRow <=> open = {}
            /\ r # NoRow =>
                 \A o \in open :
                    /\ tier(o) >= tier(r)
                    /\ tier(o) = tier(r) => tbl[o].created <= tbl[r].created

\* The row returned had to beat an older row of its own tier and a row of a
\* worse tier that is not older.
C28_Witness ==
    /\ fnOut.op = "getNextSurveyResponse"
    /\ fnOut.row # NoRow
    /\ fnIn.totalShards = 1
    /\ fnIn.locked = {}
    /\ \E o, w \in DOMAIN fnIn.tbl :
          /\ RowEligible(fnIn.tbl[o]) /\ RowEligible(fnIn.tbl[w])
          /\ UrgencyTier(fnIn.tbl[o]) = UrgencyTier(fnIn.tbl[fnOut.row])
          /\ fnIn.tbl[o].created < fnIn.tbl[fnOut.row].created
          /\ UrgencyTier(fnIn.tbl[w]) > UrgencyTier(fnIn.tbl[fnOut.row])
          /\ fnIn.tbl[w].created >= fnIn.tbl[fnOut.row].created

\* C29: an invocation whose claim transaction fails, and one whose query
\* returns no row, ends there: no call creation is submitted, the maps of
\* calls and surveys in flight and the table stay as they are, the row lock
\* is given up, and the timer can start the next invocation.
C29_FailedClaimClaimsNothing ==
    /\ [](\A p \in running :
            (~isShuttingDown[p] /\ BagCardinality(cycles) < MaxCycles)
            => ENABLED (CycleStart(p) /\ BagCardinality(cycles') = BagCardinality(cycles) + 1))
    /\ [][\A cy \in InFlight :
            /\ (cy.pc \in {"begin", "commit"} /\ cycles' = Return(cy))
               => /\ UNCHANGED <<activeSurveys, activeCalls, rows, nextCallId>>
                  /\ cy.row \notin LockedRows' \/ CopiesIn(cy, cycles') > 0
            /\ (/\ cy.pc = "commit"
                /\ cy.row = NoRow
                /\ CopiesIn(cy, cycles') < CopiesIn(cy, cycles))
               => cycles' = Return(cy)]_vars

\* One invocation holds an empty result and another awaits its transaction,
\* which can fail.
C29_Witness ==
    \E cy, other \in InFlight :
        /\ cy.pc = "commit"
        /\ cy.row = NoRow
        /\ ENABLED TxCommit(cy)
        /\ other.pc = "begin"
        /\ ENABLED TxFail(other)

\* C25: once shutdown() has gone on to close the connection pool, and after
\* it has completed, the shutdown flag is set and none of the processing
\* timer, the cleanup timer and the monitoring timer is armed.
C25_TimersClearedBeforePoolCloses ==
    (fnOut.op = "start" /\ fnOut.shutdown \in {"poolEnd", "done"})
        => /\ isShuttingDown[fnIn.pod]
           /\ ~fnOut.processingInterval
           /\ ~fnOut.cleanupInterval
           /\ ~monitor.armed

\* The inputs with which initialize() fails whatever else happens.
C30_InitializeMustFail ==
    fnIn.env = "missing" \/ ~fnIn.dbHealthy \/ ~fnIn.shardValid \/ ~fnIn.listenOk

C32_EntryExactlyWhenAccepted ==
    [][\A p \in Pods :
        LET accepted(s) ==
                \E cy \in InFlight :
                    /\ cy.pod = p /\ cy.pc = "api" /\ cy.row = s
                    /\ cycles' = Return(cy)
                    /\ nextCallId' = nextCallId + 1
            written(m, n) == {k \in DOMAIN n : k \notin DOMAIN m \/ n[k] # m[k]}
        IN  /\ \A s \in written(activeSurveys[p], activeSurveys'[p]) :
                  /\ accepted(s)
                  /\ activeSurveys'[p][s].callId = nextCallId
            /\ \A c \in written(activeCalls[p], activeCalls'[p]) :
                  /\ c = nextCallId
                  /\ accepted(activeCalls'[p][c].surveyId)
            /\ \A cy \in InFlight :
                  (/\ cy.pod = p /\ cy.pc = "api"
                   /\ CopiesIn(cy, cycles') < CopiesIn(cy, cycles))
                  => IF nextCallId' = nextCallId
                     THEN UNCHANGED <<activeSurveys, activeCalls>>
                     ELSE /\ cy.row \in DOMAIN activeSurveys'[p]
                          /\ activeSurveys'[p][cy.row].callId = nextCallId
                          /\ nextCallId \in DOMAIN activeCalls'[p]
                          /\ activeCalls'[p][nextCallId].surveyId = cy.row]_vars

\* The call handed out last was accepted for a survey: its id stands in both
\* maps.
C32_Witness ==
    \E p \in Pods, s \in Ids, c \in CallIds :
        /\ s \in DOMAIN activeSurveys[p]
        /\ activeSurveys[p][s].callId = c
        /\ c \in DOMAIN activeCalls[p]
        /\ activeCalls[p][c].surveyId = s
        /\ nextCallId = c + 1

\* Every pod runs and holds the same total, the number of pods, and its own
\* position among them: the positions differ and every id has one owner.
C33_Converged ==
    /\ running = Pods
    /\ \A p \in Pods :
          /\ shardInfo[p].totalShards = Cardinality(podsRunning)
          /\ shardInfo[p].shardIndex \in 1..shardInfo[p].totalShards
    /\ \A p, q \in Pods :
          /\ shardInfo[p].totalShards = shardInfo[q].totalShards
          /\ p # q => shardInfo[p].shardIndex # shardInfo[q].shardIndex
    /\ \A id \in Ids :
          Cardinality({p \in running :
              ShouldProcessId(id, shardInfo[p].shardIndex, shardInfo[p].totalShards)}) = 1

\* C33: once the last pod has joined, with a cache lifetime left on the
\* clock, every process comes to hold the same total and a position of its
\* own, and from then on every id has exactly one owner for good.
C33_FleetConverges ==
    (podsRunning = Pods /\ now + ShardCacheTtl <= MaxTime) ~> [](C33_Converged)

\* The second pod joined while the first still held the total of one; the
\* first has refreshed since and the fleet has converged.
C33_Witness ==
    /\ C33_Converged
    /\ NumPods >= 2
    /\ lastShardUpdate[1] > 1
    /\ lastShardUpdate[2] < lastShardUpdate[1]

\* C34: while the processing timer keeps firing, every eligible row of the
\* process's shard for which the Retell API accepts a call (every row but
\* row 1, whose calls the API rejects) is dispatched in the end: the row that
\* ranks first and keeps failing does not hold the others back for ever.
C34_EveryEligibleTaskIsDispatched ==
    \A p \in Pods : \A id \in 2..MaxBacklog :
        (/\ p \in running
         /\ id \in DOMAIN rows
         /\ RowEligible(rows[id])
         /\ ShouldProcessId(id, shardInfo[p].shardIndex, shardInfo[p].totalShards))
        ~> (id \in DOMAIN activeSurveys[p])

\* C35: once isShuttingDown is set in a process, none of its invocations
\* opens a claim transaction and none submits a call creation to the Retell
\* API: no step brings one more of its invocations to BEGIN or to the API.
C35_NoClaimOrDispatchAfterShutdown ==
    [][\A p \in Pods :
        LET at(bag, pc) ==
                BagCardinality([cy \in {d \in BagToSet(bag) : d.pod = p /\ d.pc = pc}
                                    |-> bag[cy]])
        IN  isShuttingDown[p]
            => /\ at(cycles', "begin") <= at(cycles, "begin")
               /\ at(cycles', "api") <= at(cycles, "api")]_vars

\* C36: the two maps correspond one to one: activeSurveys maps survey s to
\* call c exactly when activeCalls maps c to an entry for survey s, before
\* and after every sweep.
C36_MapsCorrespond ==
    \A p \in Pods :
        /\ \A s \in DOMAIN activeSurveys[p] :
              LET c == activeSurveys[p][s].callId
              IN  /\ c \in DOMAIN activeCalls[p]
                  /\ activeCalls[p][c].surveyId = s
        /\ \A c \in DOMAIN activeCalls[p] :
              LET s == activeCalls[p][c].surveyId
              IN  /\ s \in DOMAIN activeSurveys[p]
                  /\ activeSurveys[p][s].callId = c

\* C37: however often and from wherever shutdown() is invoked (a signal, an
\* uncaught exception or rejection, a failed start), it goes through the
\* timers, stops the shard monitoring, closes the HTTP server and ends the
\* pool at most once each, and an invocation that finds the flag set changes
\* nothing of the process: neither a timer nor the monitoring, the server,
\* the pool or the progress of the invocation that set the flag.
C37_ShutdownIsIdempotent ==
    /\ [](fnOut.op = "start" =>
            /\ fnOut.clears <= 1
            /\ fnOut.httpStops <= 1
            /\ fnOut.poolEnds <= 1
            /\ monitor.stops <= 1)
    /\ [][(/\ fnOut.op = "start"
           /\ isShuttingDown[fnIn.pod]
           /\ \/ fnOut'.signals # fnOut.signals
              \/ fnOut'.failedInit # fnOut.failedInit)
          => /\ UNCHANGED <<isShuttingDown, monitor>>
             /\ fnOut'.processingInterval = fnOut.processingInterval
             /\ fnOut'.cleanupInterval = fnOut.cleanupInterval
             /\ fnOut'.server = fnOut.server
             /\ fnOut'.shutdown = fnOut.shutdown
             /\ fnOut'.poolEnding = fnOut.poolEnding
             /\ fnOut'.waiter = fnOut.waiter
             /\ fnOut'.clears = fnOut.clears
             /\ fnOut'.httpStops = fnOut.httpStops
             /\ fnOut'.poolEnds = fnOut.poolEnds]_vars

\* A signal found the flag set by the shutdown() of a failed start, which
\* was awaiting the end of the pool: the pool was ended once.
C37_Witness ==
    /\ fnOut.op = "start"
    /\ fnOut.failedInit
    /\ fnOut.signals = 1
    /\ fnOut.shutdown = "poolEnd"
    /\ fnOut.waiter = 1
    /\ fnOut.exited
    /\ fnOut.exitCode = 0
    /\ fnOut.clears = 1
    /\ fnOut.poolEnds = 1

\* C38: whatever maxRetries a retry loop is given, a run that has ended has
\* invoked the operation at least once, and it has returned the value of an
\* invocation that succeeded or thrown the error of an invocation that
\* failed.
C38_OperationInvokedAtLeastOnce ==
    (fnOut.op = "withRetry" /\ fnOut.pc \in {"returned", "thrown"}) =>
        LET n == Len(fnOut.outcomes)
        IN  /\ fnOut.invocations >= 1
            /\ n >= 1
            /\ fnOut.pc = "returned" => fnOut.outcomes[n].ok
            /\ fnOut.pc = "thrown" =>
                  /\ fnOut.thrown \in 1..n
                  /\ ~fnOut.outcomes[fnOut.thrown].ok

\* C39: a getNextSurveyResponse call releases the client it was given once
\* and only once, however it ends (a row, no row, a failed statement, a
\* failed ROLLBACK), and releases none when it was given none: the clients
\* checked out are those of the calls still running, and none once every
\* call has ended.
C39_ConnectionReleasedExactlyOnce ==
    fnOut.op = "connections" =>
        LET calls == fnOut.calls
            holding == {i \in DOMAIN calls : calls[i].acquired /\ calls[i].pc # "ended"}
        IN  /\ \A i \in DOMAIN calls :
                  /\ calls[i].released <= 1
                  /\ calls[i].released = 1 => calls[i].acquired
                  /\ calls[i].pc = "ended" =>
                        calls[i].released = (IF calls[i].acquired THEN 1 ELSE 0)
                  /\ calls[i].pc # "ended" => calls[i].released = 0
            /\ fnOut.checkedOut = Cardinality(holding)
            /\ (\A i \in DOMAIN calls : calls[i].pc = "ended") => fnOut.checkedOut = 0

\* One call ended with the error of its ROLLBACK and another with a row; each
\* released its client and none is checked out.
C39_Witness ==
    /\ fnOut.op = "connections"
    /\ \E i, j \in DOMAIN fnOut.calls :
          /\ fnOut.calls[i].ended = "rollbackFailed"
          /\ fnOut.calls[i].released = 1
          /\ fnOut.calls[j].ended = "row"
          /\ fnOut.calls[j].released = 1
    /\ fnOut.checkedOut = 0

====
